---- MODULE Spec2Model ----
(***************************************************************************)
(* Model of the changesets command-line tool (nesymno/changesets).         *)
(*                                                                         *)
(* Text is modelled as a sequence of one-character strings, so that the    *)
(* parser, the renderer and the version arithmetic are computed the way    *)
(* the Go code computes them (byte offsets, trimming, splitting, decimal   *)
(* conversion).  Offsets are Go's 0-based offsets.                         *)
(***************************************************************************)
EXTENDS Integers, Sequences, FiniteSets, TLC

(***************************************************************************)
(* Bounds of the model.                                                    *)
(***************************************************************************)
MaxNameLen == 3
MaxSummaryLen == 3
MaxBodyLines == 3
MaxPart == 2

(***************************************************************************)
(* strings package helpers (Go standard library, as used by the code).     *)
(***************************************************************************)
\* unicode.IsSpace, the class strings.TrimSpace trims.  A rune that has no
\* escape in a string here is written by its code point: "U+000B" is the one
\* character \v, "U+00A0" the no-break space.
IsSpace(c) ==
    c \in {" ", "\n", "\t", "\r", "\f", "U+000B", "U+0085", "U+00A0", "U+1680",
           "U+2000", "U+2001", "U+2002", "U+2003", "U+2004", "U+2005", "U+2006",
           "U+2007", "U+2008", "U+2009", "U+200A", "U+2028", "U+2029", "U+202F",
           "U+205F", "U+3000"}

\* s[i:j] with Go's 0-based, half-open offsets
Slice(s, i, j) == SubSeq(s, i + 1, j)

RECURSIVE TrimLeftSpace(_)
TrimLeftSpace(s) ==
    IF s # <<>> /\ IsSpace(Head(s)) THEN TrimLeftSpace(Tail(s)) ELSE s

RECURSIVE TrimRightSpace(_)
TrimRightSpace(s) ==
    IF s # <<>> /\ IsSpace(s[Len(s)])
    THEN TrimRightSpace(SubSeq(s, 1, Len(s) - 1))
    ELSE s

TrimSpace(s) == TrimRightSpace(TrimLeftSpace(s))

HasPrefix(s, p) == Len(s) >= Len(p) /\ SubSeq(s, 1, Len(p)) = p

HasSuffix(s, p) ==
    Len(s) >= Len(p) /\ SubSeq(s, Len(s) - Len(p) + 1, Len(s)) = p

TrimPrefix(s, p) == IF HasPrefix(s, p) THEN Slice(s, Len(p), Len(s)) ELSE s

\* strings.Index: 0-based offset of the first occurrence of sub, or -1
Index(s, sub) ==
    LET hits == {i \in 0..(Len(s) - Len(sub)) : Slice(s, i, i + Len(sub)) = sub}
    IN IF hits = {} THEN -1
       ELSE CHOOSE i \in hits : \A j \in hits : i <= j

\* offset of the last occurrence of sub, or -1
LastIndex(s, sub) ==
    LET hits == {i \in 0..(Len(s) - Len(sub)) : Slice(s, i, i + Len(sub)) = sub}
    IN IF hits = {} THEN -1
       ELSE CHOOSE i \in hits : \A j \in hits : i >= j

\* strings.SplitN(s, sep, 2)
SplitN2(s, sep) ==
    LET i == Index(s, sep)
    IN IF i < 0 THEN <<s>>
       ELSE <<Slice(s, 0, i), Slice(s, i + Len(sep), Len(s))>>

(***************************************************************************)
(* changeset.go                                                            *)
(***************************************************************************)
patch == <<"p", "a", "t", "c", "h">>
minor == <<"m", "i", "n", "o", "r">>
major == <<"m", "a", "j", "o", "r">>
BumpTypes == {patch, minor, major}

Dashes == <<"-", "-", "-">>
NlDashes == <<"\n", "-", "-", "-">>

ErrMissingOpening == "changeset missing opening frontmatter delimiter (---)"
ErrMissingClosing == "changeset missing closing frontmatter delimiter (---)"
ErrInvalidFrontmatter == "invalid frontmatter format, expected 'name: bump-type'"
ErrInvalidBump == "invalid bump type"

\* the (nil, err) return of the parser
ParseFail(e) ==
    [err |-> e, filepath |-> <<>>, repoName |-> <<>>, bump |-> <<>>, summary |-> <<>>]

\* a bump parser that falls back to patch instead of failing
parseBumpTypeCoerce(s) ==
    IF s \in BumpTypes THEN [err |-> "", bump |-> s] ELSE [err |-> "", bump |-> patch]

parseBumpType(s) ==
    IF s \in BumpTypes
    THEN [err |-> "", bump |-> s]
    ELSE [err |-> ErrInvalidBump, bump |-> <<>>]

\* everything after the frontmatter search is shared by both parser variants:
\* fm is the raw frontmatter, rawBody the text after the closing delimiter
parseFrontmatter(fm, rawBody, filePath) ==
    LET frontmatter == TrimSpace(fm)
        body == TrimSpace(rawBody)
        parts == SplitN2(frontmatter, <<":">>)
    IN IF Len(parts) # 2 THEN ParseFail(ErrInvalidFrontmatter)
       ELSE LET repoName == TrimSpace(parts[1])
                bumpStr == TrimSpace(parts[2])
                b == parseBumpType(bumpStr)
            IN IF b.err # "" THEN ParseFail(b.err)
               ELSE [err |-> "", filepath |-> filePath, repoName |-> repoName,
                     bump |-> b.bump, summary |-> body]

\* a closing-delimiter search that takes the last line-start "---"
closingIndexLast(rest) == LastIndex(rest, NlDashes)

\* offset in rest of the closing delimiter: first newline followed by "---"
closingIndex(rest) == Index(rest, NlDashes)

hasOpening(content) == HasPrefix(content, Dashes)

parseChangeset(content0, filePath) ==
    LET content == TrimSpace(content0)
    IN IF ~hasOpening(content) THEN ParseFail(ErrMissingOpening)
       ELSE LET rest == Slice(content, 3, Len(content))
                idx == closingIndex(rest)
            IN IF idx < 0 THEN ParseFail(ErrMissingClosing)
               ELSE parseFrontmatter(Slice(rest, 0, idx),
                                     Slice(rest, idx + 4, Len(rest)), filePath)

\* internal/changeset: the closing delimiter is any later occurrence of "---"
Parse(content0, filePath) ==
    LET content == TrimSpace(content0)
    IN IF ~HasPrefix(content, Dashes) THEN ParseFail(ErrMissingOpening)
       ELSE LET rest == Slice(content, 3, Len(content))
                idx == Index(rest, Dashes)
            IN IF idx < 0 THEN ParseFail(ErrMissingClosing)
               ELSE parseFrontmatter(Slice(rest, 0, idx),
                                     Slice(rest, idx + 3, Len(rest)), filePath)

\* a renderer that passes the bump and the name in the wrong order
changesetContentSwapped(repoName, bump, summary) ==
    Dashes \o <<"\n">> \o bump \o <<":", " ">> \o repoName \o <<"\n">>
           \o Dashes \o <<"\n", "\n">> \o summary \o <<"\n">>

\* fmt.Sprintf("---\n%s: %s\n---\n\n%s\n", repoName, bump, summary)
changesetContent(repoName, bump, summary) ==
    Dashes \o <<"\n">> \o repoName \o <<":", " ">> \o bump \o <<"\n">>
           \o Dashes \o <<"\n", "\n">> \o summary \o <<"\n">>

ErrReadDir == "read changes directory"
ErrReadFile == "failed to read changeset"

\* a directory entry of the changes directory
Entry(name, isDir, readable, data) ==
    [name |-> name, isDir |-> isDir, readable |-> readable, content |-> data]

MdSuffix == <<".", "m", "d">>

\* os.ReadFile followed by parseChangeset
parseFile(entry) ==
    IF ~entry.readable THEN ParseFail(ErrReadFile)
    ELSE parseChangeset(entry.content, entry.name)

\* a listing that returns what it parsed before the file that failed
RECURSIVE listLoopPartial(_, _)
listLoopPartial(entries, acc) ==
    IF entries = <<>> THEN [err |-> "", file |-> <<>>, list |-> acc]
    ELSE LET entry == Head(entries)
         IN IF entry.isDir THEN listLoopPartial(Tail(entries), acc)
            ELSE IF ~HasSuffix(entry.name, MdSuffix) THEN listLoopPartial(Tail(entries), acc)
            ELSE LET cs == parseFile(entry)
                 IN IF cs.err # ""
                    THEN [err |-> cs.err, file |-> entry.name, list |-> acc]
                    ELSE listLoopPartial(Tail(entries), Append(acc, cs))

\* a listing that parses every entry whose name ends with .md, directories too
RECURSIVE listLoopDirsToo(_, _)
listLoopDirsToo(entries, acc) ==
    IF entries = <<>> THEN [err |-> "", file |-> <<>>, list |-> acc]
    ELSE LET entry == Head(entries)
         IN IF ~HasSuffix(entry.name, MdSuffix) THEN listLoopDirsToo(Tail(entries), acc)
            ELSE LET cs == parseFile(entry)
                 IN IF cs.err # ""
                    THEN [err |-> cs.err, file |-> entry.name, list |-> <<>>]
                    ELSE listLoopDirsToo(Tail(entries), Append(acc, cs))

\* the loop of listChangesets over the entries not yet visited; acc is result
RECURSIVE listLoop(_, _)
listLoop(entries, acc) ==
    IF entries = <<>> THEN [err |-> "", file |-> <<>>, list |-> acc]
    ELSE LET entry == Head(entries)
         IN IF entry.isDir THEN listLoop(Tail(entries), acc)
            ELSE IF ~HasSuffix(entry.name, MdSuffix) THEN listLoop(Tail(entries), acc)
            ELSE LET cs == parseFile(entry)
                 IN IF cs.err # ""
                    THEN [err |-> cs.err, file |-> entry.name, list |-> <<>>]
                    ELSE listLoop(Tail(entries), Append(acc, cs))

\* dir is [exists, entries]; entries are in os.ReadDir order (sorted by name)
listChangesets(dir) ==
    IF ~dir.exists THEN [err |-> ErrReadDir, file |-> <<>>, list |-> <<>>]
    ELSE listLoop(dir.entries, <<>>)

\* a priority table that ranks minor above major
bumpPriorityMinorFirst(b) ==
    IF b = patch THEN 1 ELSE IF b = minor THEN 3 ELSE IF b = major THEN 2 ELSE 0

bumpPriority(b) ==
    IF b = patch THEN 1 ELSE IF b = minor THEN 2 ELSE IF b = major THEN 3 ELSE 0

\* the loop of highestBump: highest is the running maximum
RECURSIVE highestBumpLoop(_, _)
highestBumpLoop(changes, highest) ==
    IF changes = <<>> THEN highest
    ELSE highestBumpLoop(Tail(changes),
            IF bumpPriority(Head(changes).bump) > bumpPriority(highest)
            THEN Head(changes).bump ELSE highest)

highestBump(changes) == highestBumpLoop(changes, patch)

(***************************************************************************)
(* Masterminds/semver v3, as called by calculateNextVersion: NewVersion    *)
(* (the lenient parser), IncMajor, IncMinor, IncPatch and String.          *)
(***************************************************************************)
DigitChars == <<"0", "1", "2", "3", "4", "5", "6", "7", "8", "9">>
Digits == {DigitChars[i] : i \in 1..Len(DigitChars)}
Letters == {"a", "b", "c", "d", "e", "f", "g", "h", "i", "j", "k", "l", "m",
            "n", "o", "p", "q", "r", "s", "t", "u", "v", "w", "x", "y", "z",
            "A", "B", "C", "D", "E", "F", "G", "H", "I", "J", "K", "L", "M",
            "N", "O", "P", "Q", "R", "S", "T", "U", "V", "W", "X", "Y", "Z"}

DigitVal(c) == CHOOSE d \in 0..9 : DigitChars[d + 1] = c

\* strconv.ParseUint(ds, 10, 64) of a string of decimal digits
RECURSIVE ParseUint(_)
ParseUint(ds) ==
    IF ds = <<>> THEN 0
    ELSE 10 * ParseUint(SubSeq(ds, 1, Len(ds) - 1)) + DigitVal(ds[Len(ds)])

\* the %d verb of fmt
RECURSIVE FormatUint(_)
FormatUint(n) ==
    IF n < 10 THEN <<DigitChars[n + 1]>>
    ELSE FormatUint(n \div 10) \o <<DigitChars[(n % 10) + 1]>>

\* strings.Split(s, sep) for a one-character separator
RECURSIVE Split(_, _)
Split(s, sep) ==
    LET i == Index(s, sep)
    IN IF i < 0 THEN <<s>>
       ELSE <<Slice(s, 0, i)>> \o Split(Slice(s, i + 1, Len(s)), sep)

AllIn(s, S) == \A i \in 1..Len(s) : s[i] \in S

\* 0|[1-9]\d*
IsNumber(s) == s # <<>> /\ AllIn(s, Digits) /\ (Len(s) > 1 => s[1] # "0")

\* 0|[1-9]\d*|\d*[a-zA-Z-][0-9a-zA-Z-]*
IsPreIdent(s) ==
    /\ s # <<>>
    /\ AllIn(s, Digits \cup Letters \cup {"-"})
    /\ (AllIn(s, Digits) => IsNumber(s))

\* [0-9a-zA-Z-]+
IsMetaIdent(s) == s # <<>> /\ AllIn(s, Digits \cup Letters \cup {"-"})

IsPre(s) == LET ids == Split(s, <<".">>) IN \A i \in 1..Len(ids) : IsPreIdent(ids[i])
IsMeta(s) == LET ids == Split(s, <<".">>) IN \A i \in 1..Len(ids) : IsMetaIdent(ids[i])

\* length of the longest prefix of s made of digits and dots
RECURSIVE NumericPrefixLen(_)
NumericPrefixLen(s) ==
    IF s # <<>> /\ Head(s) \in Digits \cup {"."}
    THEN 1 + NumericPrefixLen(Tail(s)) ELSE 0

InvalidSemVer ==
    [ok |-> FALSE, parts |-> 0, major |-> 0, minor |-> 0, patch |-> 0,
     pre |-> <<>>, metadata |-> <<>>]

\* the parts of what follows the numbers: "-PRE", "+META" or "-PRE+META"
HasPre(tail) == tail # <<>> /\ Head(tail) = "-"
PlusAt(tail) == Index(tail, <<"+">>)
HasMeta(tail) ==
    IF HasPre(tail) THEN PlusAt(tail) >= 0 ELSE tail # <<>> /\ Head(tail) = "+"
PreOf(tail) ==
    IF HasPre(tail)
    THEN Slice(tail, 1, IF PlusAt(tail) < 0 THEN Len(tail) ELSE PlusAt(tail))
    ELSE <<>>
MetaOf(tail) ==
    IF HasMeta(tail) THEN Slice(tail, PlusAt(tail) + 1, Len(tail)) ELSE <<>>

\* nums are the dot-separated numeric components, tail is what follows them
semverMatch(nums, tail) ==
    IF /\ Len(nums) \in 1..3
       /\ \A i \in 1..Len(nums) : IsNumber(nums[i])
       /\ (tail # <<>> => HasPre(tail) \/ HasMeta(tail))
       /\ (HasPre(tail) => IsPre(PreOf(tail)))
       /\ (HasMeta(tail) => IsMeta(MetaOf(tail)))
    THEN [ok |-> TRUE, parts |-> Len(nums),
          major |-> ParseUint(nums[1]),
          minor |-> IF Len(nums) >= 2 THEN ParseUint(nums[2]) ELSE 0,
          patch |-> IF Len(nums) >= 3 THEN ParseUint(nums[3]) ELSE 0,
          pre |-> PreOf(tail), metadata |-> MetaOf(tail)]
    ELSE InvalidSemVer

\* s is the version without its optional leading "v"
semverCore(s) ==
    semverMatch(Split(Slice(s, 0, NumericPrefixLen(s)), <<".">>),
                Slice(s, NumericPrefixLen(s), Len(s)))

\* semver.NewVersion: ^v?NUM(\.NUM)?(\.NUM)?(-PRE)?(\+META)?$ ; a missing
\* minor or patch is read as 0.  parts is the number of numeric components.
semverNewVersion(v) == semverCore(TrimPrefix(v, <<"v">>))

semverIncMajor(v) ==
    [v EXCEPT !.metadata = <<>>, !.pre = <<>>, !.patch = 0, !.minor = 0,
              !.major = v.major + 1]

\* a minor increment that forgets to reset the patch number
semverIncMinorKeepPatch(v) ==
    [v EXCEPT !.metadata = <<>>, !.pre = <<>>, !.minor = v.minor + 1]

semverIncMinor(v) ==
    [v EXCEPT !.metadata = <<>>, !.pre = <<>>, !.patch = 0, !.minor = v.minor + 1]

\* a pre-release of x.y.z is released as x.y.z itself
semverIncPatch(v) ==
    IF v.pre # <<>>
    THEN [v EXCEPT !.metadata = <<>>, !.pre = <<>>]
    ELSE [v EXCEPT !.metadata = <<>>, !.pre = <<>>, !.patch = v.patch + 1]

semverString(v) ==
    FormatUint(v.major) \o <<".">> \o FormatUint(v.minor) \o <<".">>
        \o FormatUint(v.patch)
        \o (IF v.pre # <<>> THEN <<"-">> \o v.pre ELSE <<>>)
        \o (IF v.metadata # <<>> THEN <<"+">> \o v.metadata ELSE <<>>)

(***************************************************************************)
(* config and the commands                                                 *)
(***************************************************************************)
ErrReadConfig == "failed to read config"
ErrParseConfig == "failed to parse config"
ErrInvalidVersion == "failed to parse current version"

\* file is [state, version]: state "ok" (JSON with that version), "missing"
\* (no file) or "garbage" (not the JSON of a config)
loadConfig(file) ==
    IF file.state = "missing" THEN [err |-> ErrReadConfig, Version |-> <<>>]
    ELSE IF file.state = "garbage" THEN [err |-> ErrParseConfig, Version |-> <<>>]
    ELSE [err |-> "", Version |-> file.version]

\* the ("", nil, nil, err) return of calculateNextVersion
CalcFail(e) == [ver |-> <<>>, changes |-> <<>>, cfg |-> FALSE, err |-> e]

\* the switch on the highest bump
applyBump(ver, bump) ==
    IF bump = major THEN semverIncMajor(ver)
    ELSE IF bump = minor THEN semverIncMinor(ver)
    ELSE semverIncPatch(ver)

\* a serialisation that re-attaches "v" only if the stored version had it
serialiseSamePrefix(cfgVersion, ver, bump) ==
    IF ~ver.ok THEN [err |-> ErrInvalidVersion, ver |-> <<>>]
    ELSE [err |-> "",
          ver |-> (IF HasPrefix(cfgVersion, <<"v">>) THEN <<"v">> ELSE <<>>)
                      \o semverString(applyBump(ver, bump))]

\* the error check on the parsed version, the bump and "v" + next.String()
serialise(cfgVersion, ver, bump) ==
    IF ~ver.ok THEN [err |-> ErrInvalidVersion, ver |-> <<>>]
    ELSE [err |-> "", ver |-> <<"v">> \o semverString(applyBump(ver, bump))]

\* calculateNextVersion once changesets are known to be pending: parse the
\* stored version, apply the highest bump, serialise with "v"
bumpVersion(cfgVersion, changes) ==
    serialise(cfgVersion, semverNewVersion(TrimPrefix(cfgVersion, <<"v">>)),
              highestBump(changes))

\* the return of calculateNextVersion for the changesets and the bumped version b
calcBumped(changes, b) ==
    IF b.err # "" THEN CalcFail(b.err)
    ELSE [ver |-> b.ver, changes |-> changes, cfg |-> TRUE, err |-> ""]

\* a version calculation without the early return for an empty listing
calcListedNoEarlyReturn(cfg, ls) ==
    IF ls.err # "" THEN CalcFail(ls.err)
    ELSE calcBumped(ls.list, bumpVersion(cfg.Version, ls.list))

\* calculateNextVersion from the listing on: cfg is the loaded config, ls the
\* return of listChangesets
calcListed(cfg, ls) ==
    IF ls.err # "" THEN CalcFail(ls.err)
    ELSE IF Len(ls.list) = 0
         THEN [ver |-> cfg.Version, changes |-> <<>>, cfg |-> TRUE, err |-> ""]
    ELSE calcBumped(ls.list, bumpVersion(cfg.Version, ls.list))

\* calculateNextVersion after loadConfig: cfg is its return
calcLoaded(cfg, dir) ==
    IF cfg.err # "" THEN CalcFail(cfg.err)
    ELSE calcListed(cfg, listChangesets(dir))

calculateNextVersion(cfgFile, dir) == calcLoaded(loadConfig(cfgFile), dir)

\* a main that exits with status 0 whatever the command returned
exitStatusZero(err) == 0

\* main: a command that returns an error makes the process exit with status 1
exitStatus(err) == IF err # "" THEN 1 ELSE 0

\* cmdNext with r the return of calculateNextVersion: the lines printed on
\* standard output, the error, and the exit status main turns it into
nextResult(r) ==
    [stdout |-> IF r.err # "" THEN <<>> ELSE <<r.ver>>,
     err |-> r.err, exit |-> exitStatus(r.err)]

cmdNext(cfgFile, dir) == nextResult(calculateNextVersion(cfgFile, dir))

(***************************************************************************)
(* State.                                                                  *)
(*   inp, content, res : a parser run: the pieces a document was built     *)
(*                       from, the document, and the result of the         *)
(*                       operation applied to it                           *)
(*   cfgFile           : .changesets/config.json                           *)
(*   changesDir        : .changesets/changes, its entries in name order    *)
(*   changesetsDir     : whether the .changesets directory exists          *)
(*   changelog         : CHANGELOG.md in the project root                  *)
(*   out               : what the last command or call returned            *)
(*   releases          : how many times release has run                    *)
(***************************************************************************)
VARIABLES inp, content, res, cfgFile, changesDir, changesetsDir, changelog, out,
          releases

vars ==
    <<inp, content, res, cfgFile, changesDir, changesetsDir, changelog, out, releases>>

parseVars == <<inp, content, res>>
cliVars == <<cfgFile, changesDir, changesetsDir, changelog, out, releases>>

StrUpTo(S, n) == UNION {[1..k -> S] : k \in 0..n}

NameChars == {"-", ":", " ", "\n", "a"}
SummaryChars == {"-", "\n", " ", "a"}

Names == StrUpTo(NameChars, MaxNameLen)
Summaries == {s \in StrUpTo(SummaryChars, MaxSummaryLen) : TrimSpace(s) = s}

RECURSIVE JoinLines(_)
JoinLines(ls) ==
    IF ls = <<>> THEN <<>>
    ELSE IF Len(ls) = 1 THEN ls[1]
    ELSE ls[1] \o <<"\n">> \o JoinLines(Tail(ls))

BodyLines == {<<>>, Dashes, <<"a">>}
Bodies == {JoinLines(ls) : ls \in StrUpTo(BodyLines, MaxBodyLines)}

RawLeads == {<<>>, <<"\n", " ">>, <<"U+000B", "U+00A0">>}
RawOpeners == {Dashes, <<"-", "-", "-", "-">>, <<"-", "-", "-", "x">>,
               <<"-", "-">>, <<>>}
RawNames == {<<"a">>, <<"a", "-", "-", "-", "b">>, <<>>}
RawTokens == BumpTypes \cup {<<"P", "a", "t", "c", "h">>,
                             <<"u", "r", "g", "e", "n", "t">>, <<>>,
                             <<"m", "i", "n", "o", "r", " ">>,
                             <<"m", "i", "n", "o", "r", " ", "x">>}
RawClosers == {Dashes, <<>>}

\* a document written by hand: opener line, "name: token" line, closer line, body
RawDocument(i) ==
    i.lead \o i.opener \o <<"\n">> \o i.name \o <<":", " ">> \o i.token \o <<"\n">>
           \o i.closer \o <<"\n">> \o i.body

NoResult == [op |-> "none"]

InitRender ==
    \E n \in Names, b \in BumpTypes, s \in Summaries :
        /\ inp = [family |-> "render", lead |-> <<>>, opener |-> Dashes, name |-> n,
                  token |-> b, closer |-> Dashes, body |-> s]
        /\ content = changesetContent(n, b, s)

InitRaw ==
    \E l \in RawLeads, o \in RawOpeners, n \in RawNames, t \in RawTokens,
       c \in RawClosers, b \in Bodies :
        /\ inp = [family |-> "raw", lead |-> l, opener |-> o, name |-> n,
                  token |-> t, closer |-> c, body |-> b]
        /\ content = RawDocument(inp)

NoFile == [state |-> "missing", version |-> <<>>]
NoDir == [exists |-> FALSE, entries |-> <<>>]
NoOutput == [cmd |-> "none"]
NoChangelog == [exists |-> FALSE, data |-> <<>>]

InitParse ==
    /\ InitRender \/ InitRaw
    /\ res = NoResult
    /\ cfgFile = NoFile
    /\ changesDir = NoDir
    /\ changesetsDir = [exists |-> FALSE]
    /\ changelog = NoChangelog
    /\ out = NoOutput
    /\ releases = 0

FileName == <<"a", ".", "m", "d">>
GitkeepName == <<".", "g", "i", "t", "k", "e", "e", "p">>

\* parseChangeset applied to the document
DoParseChangeset ==
    /\ res.op = "none"
    /\ res' = [op |-> "parseChangeset", cs |-> parseChangeset(content, FileName)]
    /\ UNCHANGED <<inp, content, cliVars>>

\* internal/changeset Parse applied to the document
DoParse ==
    /\ res.op = "none"
    /\ res' = [op |-> "Parse", cs |-> Parse(content, FileName)]
    /\ UNCHANGED <<inp, content, cliVars>>

\* listChangesets on a directory holding .gitkeep and the document as a.md
DoListChangesets ==
    /\ res.op = "none"
    /\ res' = [op |-> "listChangesets",
               ls |-> listChangesets([exists |-> TRUE,
                        entries |-> <<Entry(GitkeepName, FALSE, TRUE, <<>>),
                                      Entry(FileName, FALSE, TRUE, content)>>])]
    /\ UNCHANGED <<inp, content, cliVars>>

NextParse == DoParseChangeset \/ DoParse \/ DoListChangesets

SpecParse == InitParse /\ [][NextParse]_vars

(***************************************************************************)
(* Properties of the parser and the renderer (checked under SpecParse).    *)
(***************************************************************************)
Contains(s, sub) == Index(s, sub) >= 0

\* s has a line that is exactly l
HasLine(s, l) == Contains(<<"\n">> \o s \o <<"\n">>, <<"\n">> \o l \o <<"\n">>)

\* the characters of s up to its first whitespace character
RECURSIVE FirstToken(_)
FirstToken(s) ==
    IF s = <<>> \/ IsSpace(Head(s)) THEN <<>>
    ELSE <<Head(s)>> \o FirstToken(Tail(s))

Rendered == inp.family = "render"

\* a hand-written document with both delimiters in place
Delimited == inp.family = "raw" /\ inp.opener = Dashes /\ inp.closer = Dashes

\* the changeset the document was built from came back
ParsedAsBuilt(cs, summary) ==
    /\ cs.err = ""
    /\ cs.repoName = inp.name
    /\ cs.bump = TrimSpace(inp.token)
    /\ cs.summary = summary

\* C1 as stated: parseChangeset(changesetContent(n, b, s)) returns (n, b, s) for
\* every package name n, every bump b and every summary s without surrounding
\* whitespace.
C1_RoundTripEveryName ==
    (res.op = "parseChangeset" /\ Rendered) => ParsedAsBuilt(res.cs, inp.body)

\* a package name the frontmatter line can carry: no colon, no surrounding
\* whitespace, and no line of it starting with "---"
RoundTripName(n) ==
    /\ ~Contains(n, <<":">>)
    /\ TrimSpace(n) = n
    /\ ~Contains(<<"\n">> \o n, NlDashes)

\* C1 amended: the round trip holds for every package name that has no colon, no
\* leading or trailing whitespace and no line starting with "---" (every bump,
\* every summary without surrounding whitespace).
C1_RoundTrip ==
    (res.op = "parseChangeset" /\ Rendered /\ RoundTripName(inp.name))
        => ParsedAsBuilt(res.cs, inp.body)

C1_Witness ==
    /\ res.op = "parseChangeset" /\ Rendered
    /\ RoundTripName(inp.name) /\ Contains(inp.name, <<"-">>)
    /\ inp.token = major /\ Len(inp.body) = MaxSummaryLen
    /\ res.cs.summary = inp.body

\* C2: a document with a well-formed frontmatter whose body has a line that is
\* exactly "---" parses, and the summary is the whole trimmed body, the "---"
\* line still in it.
C2_HorizontalRule ==
    (/\ res.op = "parseChangeset" /\ Delimited
     /\ RoundTripName(inp.name) /\ TrimSpace(inp.token) \in BumpTypes
     /\ HasLine(inp.body, Dashes))
        => /\ ParsedAsBuilt(res.cs, TrimSpace(inp.body))
           /\ HasLine(res.cs.summary, Dashes)

C2_Witness ==
    /\ res.op = "parseChangeset" /\ Delimited
    /\ inp.token = minor
    /\ inp.body = <<"a", "\n">> \o Dashes \o <<"\n", "a">>
    /\ res.cs.summary = inp.body

\* a "---" strictly inside a line of the package name
InnerDashes(n) ==
    /\ Contains(n, Dashes)
    /\ ~Contains(<<"\n">> \o n, NlDashes)

\* C3 as stated: in every parser variant a "---" inside a line is not the
\* frontmatter boundary: the document parses with its whole package name and bump.
C3_LineStartOnly ==
    (/\ res.op \in {"parseChangeset", "Parse"} /\ Delimited
     /\ InnerDashes(inp.name) /\ RoundTripName(inp.name)
     /\ TrimSpace(inp.token) \in BumpTypes)
        => /\ res.cs.err = ""
           /\ res.cs.repoName = inp.name
           /\ res.cs.bump = TrimSpace(inp.token)

\* C4 as stated: a document whose first token, after trimming, is not exactly
\* "---" fails with the missing-opening-delimiter error.
C4_OpeningExact ==
    (res.op = "parseChangeset" /\ FirstToken(TrimSpace(content)) # Dashes)
        => res.cs.err = ErrMissingOpening

\* the frontmatter of a hand-written document carries a bump token that, once
\* trimmed, is none of patch, minor, major
BadToken ==
    Delimited /\ RoundTripName(inp.name) /\ TrimSpace(inp.token) \notin BumpTypes

\* C5: a bump token other than patch, minor, major (after trimming) fails with
\* the invalid bump type error, for the parser and for the listing, and every
\* changeset that is returned has one of the three bumps.
C5_InvalidBump ==
    /\ res.op = "parseChangeset" =>
          /\ res.cs.err = "" => res.cs.bump \in BumpTypes
          /\ BadToken => res.cs.err = ErrInvalidBump
    /\ res.op = "listChangesets" =>
          /\ \A i \in 1..Len(res.ls.list) : res.ls.list[i].bump \in BumpTypes
          /\ BadToken => (res.ls.err = ErrInvalidBump /\ res.ls.list = <<>>)

C5_Witness ==
    /\ res.op = "listChangesets" /\ Delimited
    /\ inp.token = <<"P", "a", "t", "c", "h">>
    /\ res.ls.err = ErrInvalidBump /\ res.ls.file = FileName

(***************************************************************************)
(* The commands on a project: the stored version and the pending files are *)
(* drawn from bounded sets, next and calculateNextVersion run on them.     *)
(***************************************************************************)
PartValues == (0..MaxPart) \cup {9, 10}

Triple(ma, mi, pa) ==
    FormatUint(ma) \o <<".">> \o FormatUint(mi) \o <<".">> \o FormatUint(pa)

\* stored versions that are not a plain major.minor.patch
OddVersions ==
    { <<"n", "o", "t", "-", "a", "-", "v", "e", "r", "s", "i", "o", "n">>,
      <<>>, <<"v">>,
      <<"v", "1", ".", "2">>, <<"1">>,
      <<"v", "v", "1", ".", "0", ".", "0">>,
      <<"v", "1", ".", "0", ".", "0", ".", "0">>,
      <<"1", ".", "0", ".", "x">>,
      <<"v", "1", ".", "2", ".", "3", "-", "r", "c", ".", "1">>,
      <<"1", ".", "2", ".", "3", "+", "b", "7">>,
      <<"v", "1", ".", "2", ".", "3", "-", "r", "c", "+", "b">>,
      <<"v", "1", ".", "0", ".", "0", "-">> }

StoredVersions ==
    {pf \o Triple(ma, mi, pa) :
        pf \in {<<>>, <<"v">>}, ma \in PartValues, mi \in PartValues, pa \in PartValues}
    \cup OddVersions

ConfigFiles ==
    {[state |-> "ok", version |-> v] : v \in StoredVersions}
    \cup {NoFile, [state |-> "garbage", version |-> <<>>]}

RepoName == <<"a">>
SummaryText == <<"x">>

\* what a file of the changes directory may hold
FileContents ==
    {changesetContent(RepoName, b, SummaryText) : b \in BumpTypes}
    \cup {changesetContent(RepoName, <<"u", "r", "g", "e", "n", "t">>, SummaryText)}

AName == <<"a", ".", "m", "d">>
BName == <<"b", ".", "m", "d">>
CName == <<"c", ".", "m", "d">>

\* the ways a changeset file name can be in the directory: absent, a readable
\* file with some content, an unreadable file
FileSlots(name) ==
    {<<>>} \cup {<<Entry(name, FALSE, TRUE, c)>> : c \in FileContents}
           \cup {<<Entry(name, FALSE, FALSE, <<>>)>>}

\* .gitkeep, a.md, b.md and a subdirectory called c.md, in name order
Directories ==
    {[exists |-> TRUE, entries |-> g \o a \o b \o c] :
        g \in {<<>>, <<Entry(GitkeepName, FALSE, TRUE, <<>>)>>},
        a \in FileSlots(AName), b \in FileSlots(BName),
        c \in {<<>>, <<Entry(CName, TRUE, TRUE, <<>>)>>}}
    \cup {NoDir}

Init ==
    /\ cfgFile \in ConfigFiles
    /\ changesDir \in Directories
    /\ changesetsDir = [exists |-> TRUE]
    /\ changelog = NoChangelog
    /\ out = NoOutput
    /\ releases = 0
    /\ inp = [family |-> "none"]
    /\ content = <<>>
    /\ res = NoResult

\* `changesets next`
CmdNext ==
    /\ out' = [cmd |-> "next"] @@ cmdNext(cfgFile, changesDir)
    /\ UNCHANGED <<cfgFile, changesDir, changesetsDir, changelog, releases, parseVars>>

\* a call of calculateNextVersion
CalcNext ==
    /\ out' = [cmd |-> "calculateNextVersion"]
                 @@ calculateNextVersion(cfgFile, changesDir)
    /\ UNCHANGED <<cfgFile, changesDir, changesetsDir, changelog, releases, parseVars>>

Next == CmdNext \/ CalcNext

Spec == Init /\ [][Next]_vars

(***************************************************************************)
(* Properties of the version calculation (checked under Spec).             *)
(***************************************************************************)
Calculated == out.cmd = "calculateNextVersion"

\* the project loads: config.json holds a version and the listing succeeds
Loads == cfgFile.state = "ok" /\ listChangesets(changesDir).err = ""

Pending == listChangesets(changesDir).list

HasPending(b) == \E i \in 1..Len(Pending) : Pending[i].bump = b

\* C6: for a stored vM.m.p and at least one pending changeset the result is
\* v(M+1).0.0 if a major bump is pending, else vM.(m+1).0 if a minor bump is
\* pending, else vM.m.(p+1).
C6_VersionArithmetic ==
    \A ma \in PartValues, mi \in PartValues, pa \in PartValues :
        (/\ Calculated /\ cfgFile.version = <<"v">> \o Triple(ma, mi, pa)
         /\ Loads /\ Pending # <<>>)
            => /\ out.err = ""
               /\ out.ver = <<"v">> \o
                    (IF HasPending(major) THEN Triple(ma + 1, 0, 0)
                     ELSE IF HasPending(minor) THEN Triple(ma, mi + 1, 0)
                     ELSE Triple(ma, mi, pa + 1))

C6_Witness ==
    /\ Calculated /\ Loads /\ Len(Pending) = 2
    /\ HasPending(minor) /\ HasPending(patch)
    /\ cfgFile.version = <<"v">> \o Triple(1, 9, 2)
    /\ out.ver = <<"v">> \o Triple(1, 10, 0)

\* C7: with nothing pending, calculateNextVersion returns the stored version
\* string as it is and no error, and next prints it and exits 0.
C7_NothingPending ==
    (Loads /\ Pending = <<>>) =>
        /\ Calculated => (out.err = "" /\ out.ver = cfgFile.version)
        /\ out.cmd = "next" =>
              (out.stdout = <<cfgFile.version>> /\ out.exit = 0)

C7_Witness ==
    /\ out.cmd = "next" /\ Loads /\ Pending = <<>>
    /\ Len(changesDir.entries) = 2
    /\ cfgFile.version = <<"v">> \o Triple(1, 0, 0)
    /\ out.stdout = <<cfgFile.version>> /\ out.exit = 0

\* C8 as stated: next exits non-zero when no changeset is pending.
C8_NextFailsWithoutChangesets ==
    (out.cmd = "next" /\ Loads /\ Pending = <<>>) => out.exit # 0

\* a semantic version: exactly major.minor.patch, optional pre-release and build
IsSemVer(s) ==
    LET v == semverNewVersion(s)
    IN v.ok /\ v.parts = 3 /\ ~HasPrefix(s, <<"v">>)

\* C9 as stated: for every pending sequence, a stored version that is not a
\* semantic version after one leading "v" is stripped makes the calculation
\* fail with the invalid-version error.
C9_InvalidVersionRejected ==
    (Calculated /\ Loads /\ ~IsSemVer(TrimPrefix(cfgFile.version, <<"v">>)))
        => out.err = ErrInvalidVersion

\* C10 as stated: the computed version starts with "v" if and only if the
\* stored version does.
C10_SamePrefix ==
    (Calculated /\ out.err = "")
        => (HasPrefix(out.ver, <<"v">>) <=> HasPrefix(cfgFile.version, <<"v">>))

\* C10 amended: with at least one changeset pending the computed version starts
\* with "v" whether or not the stored version does; with none pending it is the
\* stored string, prefixed or not.
C10_AlwaysPrefixed ==
    (Calculated /\ out.err = "")
        => /\ Pending # <<>> => HasPrefix(out.ver, <<"v">>)
           /\ Pending = <<>> => out.ver = cfgFile.version

C10_Witness ==
    /\ Calculated /\ out.err = "" /\ HasPending(patch)
    /\ cfgFile.version = Triple(1, 0, 0)
    /\ out.ver = <<"v">> \o Triple(1, 0, 1)

(***************************************************************************)
(* git.go: the short SHA of the commit that added a file.  The outcome of  *)
(* `git log --diff-filter=A --format=%h -- <file>` is [fails, out].        *)
(***************************************************************************)
ErrGitLog == "git log failed"

\* what git prints for a file it does not track
Untracked == [fails |-> FALSE, out |-> <<>>]

\* git maps file paths to outcomes; a path it does not know is untracked
gitLog(git, filePath) == IF filePath \in DOMAIN git THEN git[filePath] ELSE Untracked

\* the last line of the trimmed output, trimmed
lastLine(lines) == TrimSpace(lines[Len(lines)])

\* getFileCommitSHA from the trimmed output on
shaOf(sha) ==
    IF sha = <<>> THEN [sha |-> <<>>, err |-> ""]
    ELSE [sha |-> lastLine(Split(sha, <<"\n">>)), err |-> ""]

getFileCommitSHA(o) ==
    IF o.fails THEN [sha |-> <<>>, err |-> ErrGitLog] ELSE shaOf(TrimSpace(o.out))

(***************************************************************************)
(* main.go: buildChangelogSection                                          *)
(***************************************************************************)
MajorChanges == <<"M", "a", "j", "o", "r", " ", "C", "h", "a", "n", "g", "e", "s">>
MinorChanges == <<"M", "i", "n", "o", "r", " ", "C", "h", "a", "n", "g", "e", "s">>
PatchChanges == <<"P", "a", "t", "c", "h", " ", "C", "h", "a", "n", "g", "e", "s">>

\* fmt.Sprintf("## %s - %s\n", ver, date)
sectionHeader(ver, date) == <<"#", "#", " ">> \o ver \o <<" ", "-", " ">> \o date \o <<"\n">>

\* groups[b]: the changesets of bump b, in the order of the input
groupOf(changes, b) == SelectSeq(changes, LAMBDA cs : cs.bump = b)

\* an entry that prints the reference even when there is none
entryLineAlwaysRef(sha, summary) == <<"-", " ">> \o sha \o <<":", " ">> \o summary \o <<"\n">>

\* the list item of a changeset whose commit lookup returned sha
entryLine(sha, summary) ==
    IF sha # <<>> THEN <<"-", " ">> \o sha \o <<":", " ">> \o summary \o <<"\n">>
    ELSE <<"-", " ">> \o summary \o <<"\n">>

\* the loop of writeGroup over the items
RECURSIVE writeItems(_, _)
writeItems(items, git) ==
    IF items = <<>> THEN <<>>
    ELSE entryLine(getFileCommitSHA(gitLog(git, Head(items).filepath)).sha,
                   Head(items).summary)
             \o writeItems(Tail(items), git)

\* a group writer that emits the heading of an empty group too
writeGroupAlways(title, items, git) ==
    <<"\n", "#", "#", "#", " ">> \o title \o <<"\n", "\n">> \o writeItems(items, git)

writeGroup(title, items, git) ==
    IF Len(items) = 0 THEN <<>>
    ELSE <<"\n", "#", "#", "#", " ">> \o title \o <<"\n", "\n">> \o writeItems(items, git)

\* date is time.Now().Format("2006-01-02")
buildChangelogSection(ver, changes, date, git) ==
    sectionHeader(ver, date)
        \o writeGroup(MajorChanges, groupOf(changes, major), git)
        \o writeGroup(MinorChanges, groupOf(changes, minor), git)
        \o writeGroup(PatchChanges, groupOf(changes, patch), git)

(***************************************************************************)
(* main.go: prependChangelog                                               *)
(***************************************************************************)
ChangelogHeader == <<"#", " ", "C", "h", "a", "n", "g", "e", "l", "o", "g", "\n", "\n">>
ErrWriteChangelog == "failed to write CHANGELOG.md"

\* strings.TrimLeft(s, "\n")
RECURSIVE TrimLeftNewlines(_)
TrimLeftNewlines(s) ==
    IF s # <<>> /\ Head(s) = "\n" THEN TrimLeftNewlines(Tail(s)) ELSE s

\* a splice that puts the new section after what the document already has
afterHeaderOldestFirst(existing, idx, section) ==
    IF idx >= 0
    THEN Slice(existing, 0, idx + 1) \o <<"\n">>
             \o TrimLeftNewlines(Slice(existing, idx + 1, Len(existing)))
             \o <<"\n">> \o section
    ELSE existing \o <<"\n", "\n">> \o section

\* the document starts with "# "; idx is the offset of its first newline
afterHeader(existing, idx, section) ==
    IF idx >= 0
    THEN Slice(existing, 0, idx + 1) \o <<"\n">> \o section \o <<"\n">>
             \o TrimLeftNewlines(Slice(existing, idx + 1, Len(existing)))
    ELSE existing \o <<"\n", "\n">> \o section

\* a merge that does not look for a heading
changelogContentNoHeading(existing, section) ==
    IF existing = <<>> THEN ChangelogHeader \o section
    ELSE section \o <<"\n">> \o existing

\* a merge that starts a new document without the heading
changelogContentBare(existing, section) ==
    IF existing = <<>> THEN section
    ELSE IF HasPrefix(existing, <<"#", " ">>)
         THEN afterHeader(existing, Index(existing, <<"\n">>), section)
    ELSE section \o <<"\n">> \o existing

\* the new content of CHANGELOG.md
changelogContent(existing, section) ==
    IF existing = <<>> THEN ChangelogHeader \o section
    ELSE IF HasPrefix(existing, <<"#", " ">>)
         THEN afterHeader(existing, Index(existing, <<"\n">>), section)
    ELSE section \o <<"\n">> \o existing

\* os.ReadFile of CHANGELOG.md: a file that cannot be read counts as empty
readChangelog(file) == IF file.exists THEN file.data ELSE <<>>

\* file is [exists, data]; writeFails tells whether os.WriteFile fails
prependChangelog(file, section, writeFails) ==
    IF writeFails THEN [err |-> ErrWriteChangelog, file |-> file]
    ELSE [err |-> "",
          file |-> [exists |-> TRUE,
                    data |-> changelogContent(readChangelog(file), section)]]

(***************************************************************************)
(* The changelog functions on bounded inputs: a sequence of changesets     *)
(* with the outcome of the commit lookup of each, or a changelog document  *)
(* that sections are merged into.                                          *)
(***************************************************************************)
MaxChanges == 3
MaxMerges == 3

ChangeLetters == <<"a", "b", "c", "d", "e", "f", "g", "h">>

\* the i-th file of the changes directory and its summary
ChangePath(i) == <<ChangeLetters[i]>> \o MdSuffix
ChangeSummary(i) == <<"f", "i", "x", " ", DigitChars[i + 1]>>

Change(i, b) ==
    [err |-> "", filepath |-> ChangePath(i), repoName |-> RepoName,
     bump |-> b, summary |-> ChangeSummary(i)]

GitFails == [fails |-> TRUE, out |-> <<>>]
GitOutcomes ==
    {GitFails, Untracked,
     [fails |-> FALSE, out |-> <<"a", "b", "1", "2", "\n">>],
     [fails |-> FALSE, out |-> <<"c", "d", "3", "4", "\n", "a", "b", "1", "2", "\n">>]}

Dates == {<<"2", "0", "2", "4", "-", "0", "5", "-", "0", "6">>}
ReleaseVersions == {<<"v", "1", ".", "0", ".", "1">>}

InitChanges ==
    \E n \in 0..MaxChanges :
        \E b \in [1..n -> BumpTypes], g \in [1..n -> GitOutcomes],
           v \in ReleaseVersions, d \in Dates :
            /\ inp = [family |-> "changes", ver |-> v, date |-> d,
                      changes |-> [i \in 1..n |-> Change(i, b[i])],
                      git |-> [p \in {ChangePath(i) : i \in 1..n} |->
                                  g[CHOOSE i \in 1..n : ChangePath(i) = p]]]
            /\ changelog = NoChangelog

Nl == <<"\n">>
ChangelogTitle == <<"#", " ", "C", "h", "a", "n", "g", "e", "l", "o", "g">>
OldSection ==
    <<"#", "#", " ", "v", "0", ".", "1", ".", "0", "\n", "\n", "-", " ", "O", "l", "d", "\n">>
ExistingContent ==
    <<"e", "x", "i", "s", "t", "i", "n", "g", " ", "c", "o", "n", "t", "e", "n", "t", "\n">>

\* sections as buildChangelogSection writes them
BuiltSections ==
    { buildChangelogSection(<<"v", "1", ".", "0", ".", "1">>, <<Change(1, patch)>>,
                            <<"2", "0", "2", "4", "-", "0", "5", "-", "0", "6">>, <<>>),
      buildChangelogSection(<<"v", "1", ".", "1", ".", "0">>,
                            <<Change(1, minor), Change(2, patch)>>,
                            <<"2", "0", "2", "4", "-", "0", "5", "-", "0", "7">>, <<>>),
      buildChangelogSection(<<"v", "2", ".", "0", ".", "0">>, <<Change(1, major)>>,
                            <<"2", "0", "2", "4", "-", "0", "5", "-", "0", "8">>,
                            [p \in {ChangePath(1)} |->
                                [fails |-> FALSE, out |-> <<"a", "b", "1", "2", "\n">>]]) }

\* other text handed to prependChangelog as a section
OddSections ==
    { <<>>, <<"#", "#", " ", "v", "1", ".", "0", ".", "0", "\n">>,
      <<"#", " ", "O", "t", "h", "e", "r">>,
      <<"\n", "#", " ", "O", "t", "h", "e", "r", "\n">> }

Sections == BuiltSections \cup OddSections

\* what CHANGELOG.md may hold before a merge
Documents ==
    { <<>>, ChangelogTitle, ChangelogTitle \o Nl,
      ChangelogTitle \o Nl \o Nl \o OldSection,
      ChangelogTitle \o Nl \o Nl \o Nl \o Nl \o OldSection,
      ChangelogTitle \o <<"\n", "o", "l", "d">>,
      <<"#", " ", "N", "o", "t", "e", "s", "\n", "\n">> \o OldSection,
      <<"#", " ", "\n">>,
      <<"#", "C", "h", "a", "n", "g", "e", "l", "o", "g", "\n">>,
      OldSection, ExistingContent, <<"\n", "o", "l", "d", "\n">>, Nl }

ChangelogFiles ==
    {NoChangelog} \cup {[exists |-> TRUE, data |-> d] : d \in Documents}

InitDocument ==
    /\ changelog \in ChangelogFiles
    /\ inp = [family |-> "document", doc0 |-> changelog]

InitChangelog ==
    /\ InitChanges \/ InitDocument
    /\ content = <<>>
    /\ res = [op |-> "none", sections |-> <<>>]
    /\ cfgFile = NoFile
    /\ changesDir = NoDir
    /\ changesetsDir = [exists |-> FALSE]
    /\ out = NoOutput
    /\ releases = 0

\* highestBump applied to the changesets
DoHighestBump ==
    /\ inp.family = "changes" /\ res.op = "none"
    /\ res' = [op |-> "highestBump", bump |-> highestBump(inp.changes)]
    /\ UNCHANGED <<inp, content, cliVars>>

\* buildChangelogSection applied to the changesets
DoBuildChangelogSection ==
    /\ inp.family = "changes" /\ res.op = "none"
    /\ res' = [op |-> "buildChangelogSection",
               section |-> buildChangelogSection(inp.ver, inp.changes, inp.date, inp.git)]
    /\ UNCHANGED <<inp, content, cliVars>>

\* the record of a merge: the sections merged so far, the error of this call
merged(r, section) ==
    [op |-> "prependChangelog",
     sections |-> IF r.err = "" THEN Append(res.sections, section) ELSE res.sections,
     err |-> r.err]

\* one more prependChangelog on the document
DoPrependChangelog ==
    /\ inp.family = "document" /\ Len(res.sections) < MaxMerges
    /\ \E section \in Sections, writeFails \in BOOLEAN :
         /\ changelog' = prependChangelog(changelog, section, writeFails).file
         /\ res' = merged(prependChangelog(changelog, section, writeFails), section)
    /\ UNCHANGED <<inp, content, cfgFile, changesDir, changesetsDir, out, releases>>

(***************************************************************************)
(* config.go and main.go: saveConfig, cleanupChanges,                      *)
(* ensureChangesetsExist and cmdRelease.  A project p is [changesetsDir,   *)
(* cfgFile, changesDir, changelog]; env is what the command meets outside  *)
(* it: the date, git, and which of its writes fail.                        *)
(***************************************************************************)
ErrNotInitialised == ".changesets directory not found. Run 'changesets init' first"
ErrNothingToRelease == "no changesets found, nothing to release"
ErrWriteConfig == "failed to write config"
ErrRemove == "failed to remove"
ErrCleanupReadDir == "failed to read changes directory"

ensureChangesetsExist(dir) == IF ~dir.exists THEN ErrNotInitialised ELSE ""

\* a saveConfig that reports success and leaves config.json as it was
saveConfigStale(file, Version, writeFails) ==
    IF writeFails THEN [err |-> ErrWriteConfig, file |-> file]
    ELSE [err |-> "", file |-> file]

\* file is config.json before the call; writeFails tells whether os.WriteFile fails
saveConfig(file, Version, writeFails) ==
    IF writeFails THEN [err |-> ErrWriteConfig, file |-> file]
    ELSE [err |-> "", file |-> [state |-> "ok", version |-> Version]]

\* a cleanup loop that stops after the first file it removes
RECURSIVE cleanupLoopFirstOnly(_, _, _)
cleanupLoopFirstOnly(entries, kept, removeFails) ==
    IF entries = <<>> THEN [err |-> "", file |-> <<>>, entries |-> kept]
    ELSE IF Head(entries).isDir \/ ~HasSuffix(Head(entries).name, MdSuffix)
         THEN cleanupLoopFirstOnly(Tail(entries), Append(kept, Head(entries)), removeFails)
    ELSE IF Head(entries).name \in removeFails
         THEN [err |-> ErrRemove, file |-> Head(entries).name, entries |-> kept \o entries]
    ELSE [err |-> "", file |-> <<>>, entries |-> kept \o Tail(entries)]

\* the loop of cleanupChanges: kept are the entries passed over so far
RECURSIVE cleanupLoop(_, _, _)
cleanupLoop(entries, kept, removeFails) ==
    IF entries = <<>> THEN [err |-> "", file |-> <<>>, entries |-> kept]
    ELSE IF Head(entries).isDir \/ ~HasSuffix(Head(entries).name, MdSuffix)
         THEN cleanupLoop(Tail(entries), Append(kept, Head(entries)), removeFails)
    ELSE IF Head(entries).name \in removeFails
         THEN [err |-> ErrRemove, file |-> Head(entries).name, entries |-> kept \o entries]
    ELSE cleanupLoop(Tail(entries), kept, removeFails)

\* the directory after the loop c
cleaned(c) == [err |-> c.err, dir |-> [exists |-> TRUE, entries |-> c.entries]]

\* removeFails is the set of file names whose os.Remove fails
cleanupChanges(dir, removeFails) ==
    IF ~dir.exists THEN [err |-> ErrCleanupReadDir, dir |-> dir]
    ELSE cleaned(cleanupLoop(dir.entries, <<>>, removeFails))

\* what cmdRelease leaves behind and returns
released(cfg, dir, log, stdout, err) ==
    [cfgFile |-> cfg, changesDir |-> dir, changelog |-> log,
     stdout |-> stdout, err |-> err, exit |-> exitStatus(err)]

\* a return of cmdRelease before its first write
notReleased(p, err) == released(p.cfgFile, p.changesDir, p.changelog, <<>>, err)

\* cmdRelease after cleanupChanges returned c
releaseCleaned(ver, log, cfg, c) ==
    released(cfg, c.dir, log, IF c.err # "" THEN <<>> ELSE <<ver>>, c.err)

\* cmdRelease after saveConfig returned s
releaseSaved(p, env, ver, log, s) ==
    IF s.err # "" THEN released(p.cfgFile, p.changesDir, log, <<>>, s.err)
    ELSE releaseCleaned(ver, log, s.file, cleanupChanges(p.changesDir, env.removeFails))

\* cmdRelease after prependChangelog returned w
releasePrepended(p, env, ver, w) ==
    IF w.err # "" THEN notReleased(p, w.err)
    ELSE releaseSaved(p, env, ver, w.file, saveConfig(p.cfgFile, ver, env.saveFails))

\* a release that goes on without a pending changeset
releaseCalculatedUnchecked(p, env, r) ==
    IF r.err # "" THEN notReleased(p, r.err)
    ELSE releasePrepended(p, env, r.ver,
             prependChangelog(p.changelog,
                 buildChangelogSection(r.ver, r.changes, env.date, env.git),
                 env.writeFails))

\* cmdRelease after calculateNextVersion returned r
releaseCalculated(p, env, r) ==
    IF r.err # "" THEN notReleased(p, r.err)
    ELSE IF Len(r.changes) = 0 THEN notReleased(p, ErrNothingToRelease)
    ELSE releasePrepended(p, env, r.ver,
             prependChangelog(p.changelog,
                 buildChangelogSection(r.ver, r.changes, env.date, env.git),
                 env.writeFails))

cmdRelease(p, env) ==
    IF ensureChangesetsExist(p.changesetsDir) # ""
    THEN notReleased(p, ensureChangesetsExist(p.changesetsDir))
    ELSE releaseCalculated(p, env, calculateNextVersion(p.cfgFile, p.changesDir))

\* an environment in which every write succeeds
NoFaults(date, git) ==
    [date |-> date, git |-> git, writeFails |-> FALSE, saveFails |-> FALSE,
     removeFails |-> {}]

\* the project whose changes directory holds the changesets, written by
\* changesetContent, and .gitkeep
ProjectOf(changes) ==
    [changesetsDir |-> [exists |-> TRUE],
     cfgFile |-> [state |-> "ok", version |-> <<"v", "1", ".", "0", ".", "0">>],
     changesDir |-> [exists |-> TRUE,
                     entries |-> <<Entry(GitkeepName, FALSE, TRUE, <<>>)>> \o
                         [i \in 1..Len(changes) |->
                             Entry(changes[i].filepath, FALSE, TRUE,
                                   changesetContent(changes[i].repoName,
                                       changes[i].bump, changes[i].summary))]],
     changelog |-> NoChangelog]

\* cmdRelease on the project that holds the changesets
DoRelease ==
    /\ inp.family = "changes" /\ res.op = "none"
    /\ res' = [op |-> "cmdRelease"]
                 @@ cmdRelease(ProjectOf(inp.changes), NoFaults(inp.date, inp.git))
    /\ UNCHANGED <<inp, content, cliVars>>

NextChangelog ==
    DoHighestBump \/ DoBuildChangelogSection \/ DoRelease \/ DoPrependChangelog

SpecChangelog == InitChangelog /\ [][NextChangelog]_vars

(***************************************************************************)
(* Properties of highestBump and of the changelog functions (checked       *)
(* under SpecChangelog).                                                   *)
(***************************************************************************)
BumpOrder == <<patch, minor, major>>
Rank(b) == CHOOSE i \in 1..3 : BumpOrder[i] = b

\* the changesets of the input rearranged by the permutation f
Permuted(f) == [i \in 1..Len(inp.changes) |-> inp.changes[f[i]]]

\* C11: highestBump of a non-empty sequence is one of its bumps and no bump of
\* the sequence ranks above it under patch < minor < major; every permutation of
\* the sequence gives the same bump; the empty sequence gives patch.
C11_HighestBump ==
    res.op = "highestBump" =>
        /\ inp.changes = <<>> => res.bump = patch
        /\ inp.changes # <<>> =>
              /\ \E i \in 1..Len(inp.changes) : inp.changes[i].bump = res.bump
              /\ \A i \in 1..Len(inp.changes) :
                    Rank(inp.changes[i].bump) <= Rank(res.bump)
        /\ \A f \in Permutations(1..Len(inp.changes)) :
              highestBump(Permuted(f)) = res.bump

C11_Witness ==
    /\ res.op = "highestBump" /\ Len(inp.changes) = 3
    /\ inp.changes[1].bump = minor /\ inp.changes[2].bump = major
    /\ inp.changes[3].bump = patch
    /\ res.bump = major

Lines(s) == Split(s, <<"\n">>)

GroupTitles == <<MajorChanges, MinorChanges, PatchChanges>>
GroupBumps == <<major, minor, patch>>
GroupHeading(k) == <<"#", "#", "#", " ">> \o GroupTitles[k]

\* the numbers of the lines of ls that are exactly l
Positions(ls, l) == {i \in 1..Len(ls) : ls[i] = l}

\* the non-empty lines of ls up to its first group heading
RECURSIVE TakeBlock(_)
TakeBlock(ls) ==
    IF ls = <<>> \/ HasPrefix(Head(ls), <<"#", "#", "#", " ">>) THEN <<>>
    ELSE (IF Head(ls) = <<>> THEN <<>> ELSE <<Head(ls)>>) \o TakeBlock(Tail(ls))

\* the lines under the heading of group k, none if the heading is not there
EntriesUnder(ls, k) ==
    IF Positions(ls, GroupHeading(k)) = {} THEN <<>>
    ELSE TakeBlock(SubSeq(ls, 1 + CHOOSE i \in Positions(ls, GroupHeading(k)) : TRUE,
                          Len(ls)))

\* the summary of a list item: what follows "- " and the reference, if any
EntrySummary(line) ==
    IF Index(line, <<":", " ">>) >= 0 THEN Slice(line, Index(line, <<":", " ">>) + 2, Len(line))
    ELSE Slice(line, 2, Len(line))

SummariesOf(items) == [i \in 1..Len(items) |-> items[i].summary]

\* the summaries of the input changesets of group k, in input order
InputGroup(k) ==
    SummariesOf(SelectSeq(inp.changes, LAMBDA cs : cs.bump = GroupBumps[k]))

Built == res.op = "buildChangelogSection"

\* the section of the run is grouped as C12 says
GroupedAsInput(ls) ==
    /\ ls[1] = <<"#", "#", " ">> \o inp.ver \o <<" ", "-", " ">> \o inp.date
    /\ \A k \in 1..3 :
          /\ Cardinality(Positions(ls, GroupHeading(k)))
                = (IF InputGroup(k) # <<>> THEN 1 ELSE 0)
          /\ \A i \in 1..Len(EntriesUnder(ls, k)) :
                HasPrefix(EntriesUnder(ls, k)[i], <<"-", " ">>)
          /\ [i \in 1..Len(EntriesUnder(ls, k)) |-> EntrySummary(EntriesUnder(ls, k)[i])]
                = InputGroup(k)
    /\ \A j \in 1..3, k \in 1..3 :
          (j < k /\ InputGroup(j) # <<>> /\ InputGroup(k) # <<>>)
              => \A a \in Positions(ls, GroupHeading(j)),
                    b \in Positions(ls, GroupHeading(k)) : a < b
    /\ Cardinality({i \in 1..Len(ls) : HasPrefix(ls[i], <<"#", "#", "#", " ">>)})
          = Cardinality({k \in 1..3 : InputGroup(k) # <<>>})
    /\ Cardinality({i \in 1..Len(ls) : HasPrefix(ls[i], <<"-", " ">>)}) = Len(inp.changes)

\* C12: the section starts with the release header; the headings Major Changes,
\* Minor Changes, Patch Changes come in that order, each exactly when its group
\* has a changeset; under each heading are the entries of the changesets of that
\* bump in input order; there are as many entries as input changesets.
C12_GroupedSection == Built => GroupedAsInput(Lines(res.section))

C12_Witness ==
    /\ Built /\ Len(inp.changes) = 3
    /\ inp.changes[1].bump = patch /\ inp.changes[2].bump = major
    /\ inp.changes[3].bump = patch
    /\ Positions(Lines(res.section), GroupHeading(2)) = {}
    /\ Positions(Lines(res.section), GroupHeading(1)) = {3}
    /\ SubSeq(Lines(res.section), 9, 11)
          = <<<<"-", " ", "f", "i", "x", " ", "1">>, <<"-", " ", "f", "i", "x", " ", "3">>, <<>>>>

\* what the commit lookup returns for the i-th changeset of the input
Reference(i) == getFileCommitSHA(gitLog(inp.git, inp.changes[i].filepath)).sha

\* the list item C13 describes for the i-th changeset
ExpectedEntry(i) ==
    IF Reference(i) # <<>>
    THEN <<"-", " ">> \o Reference(i) \o <<":", " ">> \o inp.changes[i].summary
    ELSE <<"-", " ">> \o inp.changes[i].summary

\* the lookup of every changeset fails
GitDown ==
    inp.changes # <<>> /\ \A i \in 1..Len(inp.changes) : gitLog(inp.git, ChangePath(i)).fails

\* C13: every changeset has the entry `- <reference>: <summary>` if its lookup
\* returns a reference and `- <summary>` if it returns none or fails; release
\* succeeds whenever a changeset is pending, whatever git does, and writes
\* those entries to the changelog.
C13_EntryFormat ==
    /\ Built =>
          \A i \in 1..Len(inp.changes) :
              /\ HasLine(res.section, ExpectedEntry(i))
              /\ gitLog(inp.git, ChangePath(i)).fails
                    => HasLine(res.section, <<"-", " ">> \o inp.changes[i].summary)
    /\ (res.op = "cmdRelease" /\ inp.changes # <<>>) =>
          /\ res.err = ""
          /\ \A i \in 1..Len(inp.changes) :
                HasLine(res.changelog.data, ExpectedEntry(i))

C13_Witness ==
    /\ res.op = "cmdRelease" /\ Len(inp.changes) = 3
    /\ gitLog(inp.git, ChangePath(1)).fails
    /\ gitLog(inp.git, ChangePath(2)).out = <<"c", "d", "3", "4", "\n", "a", "b", "1", "2", "\n">>
    /\ gitLog(inp.git, ChangePath(3)) = Untracked
    /\ res.err = ""
    /\ HasLine(res.changelog.data, <<"-", " ", "f", "i", "x", " ", "1">>)
    /\ HasLine(res.changelog.data, <<"-", " ", "a", "b", "1", "2", ":", " ", "f", "i", "x", " ", "2">>)
    /\ HasLine(res.changelog.data, <<"-", " ", "f", "i", "x", " ", "3">>)

FirstLine(s) == Lines(s)[1]

HeadingAndBlank == ChangelogTitle \o Nl \o Nl

NonEmptyLines(s) == SelectSeq(Lines(s), LAMBDA l : l # <<>>)

Merging == inp.family = "document"

\* the document the merges started from has a level-1 heading as its first line
StartsWithHeading == inp.doc0.exists /\ HasPrefix(FirstLine(inp.doc0.data), <<"#", " ">>)

\* there was no document, or an empty one
StartsEmpty == ~inp.doc0.exists \/ inp.doc0.data = <<>>

\* C14: if the first line of the document is a level-1 heading, it is still the
\* first line, character for character, after any number of prependChangelog
\* calls, whatever the sections and whether or not a write failed.
C14_HeadingPreserved ==
    (Merging /\ StartsWithHeading)
        => /\ changelog.exists
           /\ FirstLine(changelog.data) = FirstLine(inp.doc0.data)

C14_Witness ==
    /\ Merging /\ inp.doc0.data = ChangelogTitle
    /\ Len(res.sections) = MaxMerges
    /\ res.sections[1] = <<"#", " ", "O", "t", "h", "e", "r">> /\ res.sections[2] \in BuiltSections
    /\ FirstLine(changelog.data) = ChangelogTitle
    /\ Len(changelog.data) > Len(inp.doc0.data)

\* the non-empty lines of the sections, the last merged first
RECURSIVE NewestFirst(_)
NewestFirst(sections) ==
    IF sections = <<>> THEN <<>>
    ELSE NewestFirst(Tail(sections)) \o NonEmptyLines(Head(sections))

\* the heading the merged document has to start with
HeadingLine == IF StartsEmpty THEN ChangelogTitle ELSE FirstLine(inp.doc0.data)

\* the non-empty lines the document had under its heading before the first merge
PriorLines == IF StartsEmpty THEN <<>> ELSE Tail(NonEmptyLines(inp.doc0.data))

AllBuilt == \A i \in 1..Len(res.sections) : res.sections[i] \in BuiltSections

\* C15: after merging the sections s1, ..., sn (n >= 1) into a changelog that
\* was absent, empty or started with a level-1 heading, the non-empty lines of
\* the document are: the heading, the lines of sn, ..., the lines of s1, then
\* the lines the document had under its heading before, in their order.
C15_NewestFirst ==
    (/\ Merging /\ (StartsEmpty \/ StartsWithHeading)
     /\ res.sections # <<>> /\ AllBuilt)
        => NonEmptyLines(changelog.data)
              = <<HeadingLine>> \o NewestFirst(res.sections) \o PriorLines

C15_Witness ==
    /\ Merging /\ inp.doc0.data = ChangelogTitle \o Nl \o Nl \o Nl \o Nl \o OldSection
    /\ Len(res.sections) = MaxMerges /\ AllBuilt
    /\ res.sections[1] # res.sections[2] /\ res.err = ""
    /\ changelog.data = HeadingAndBlank \o res.sections[MaxMerges] \o <<"\n">>
                            \o res.sections[MaxMerges - 1]
                            \o Slice(changelog.data,
                                     14 + Len(res.sections[MaxMerges])
                                        + Len(res.sections[MaxMerges - 1]),
                                     Len(changelog.data))
    /\ HasSuffix(changelog.data, res.sections[1] \o <<"\n">> \o OldSection)

\* one merge of a section: text that ends its last line with a newline
MergedOne ==
    /\ Merging /\ Len(res.sections) = 1
    /\ HasSuffix(res.sections[1], <<"\n">>)

\* C16: one prependChangelog on an absent or empty document gives exactly
\* "# Changelog", an empty line, and the section; on a non-empty document that
\* does not start with "# " it gives the section, one empty line, and the
\* existing content unchanged.
C16_NewOrHeadless ==
    MergedOne =>
        /\ StartsEmpty => changelog.data = HeadingAndBlank \o res.sections[1]
        /\ (~StartsEmpty /\ ~StartsWithHeading) =>
              changelog.data = res.sections[1] \o <<"\n">> \o inp.doc0.data

C16_Witness ==
    /\ MergedOne /\ res.sections[1] \in BuiltSections
    /\ inp.doc0.data = ExistingContent
    /\ changelog.data = res.sections[1] \o Nl \o ExistingContent

(***************************************************************************)
(* The commands on a project that may or may not be initialised, with a    *)
(* changelog, in an environment where git and the writes may fail.         *)
(***************************************************************************)
MaxReleases == 2

ProjectVersions ==
    { <<"v", "1", ".", "2", ".", "3">>, <<"1", ".", "0", ".", "0">>, <<"v", "1", ".", "2">>,
      <<"n", "o", "t", "-", "a", "-", "v", "e", "r", "s", "i", "o", "n">> }

ProjectConfigs ==
    {[state |-> "ok", version |-> v] : v \in ProjectVersions}
    \cup {NoFile, [state |-> "garbage", version |-> <<>>]}

ProjectChangelogs ==
    { NoChangelog,
      [exists |-> TRUE, data |-> HeadingAndBlank \o OldSection] }

Today == <<"2", "0", "2", "4", "-", "0", "5", "-", "0", "6">>

\* what git knows about the files of the changes directory
GitEnvs ==
    { [p \in {AName, BName} |-> GitFails],
      [p \in {AName} |-> [fails |-> FALSE, out |-> <<"a", "b", "1", "2", "\n">>]] }

\* what can go wrong with the writes of a command: nothing, the write of
\* CHANGELOG.md, the write of config.json, the removal of a file
FaultCases ==
    { [writeFails |-> FALSE, saveFails |-> FALSE, removeFails |-> {}],
      [writeFails |-> TRUE, saveFails |-> FALSE, removeFails |-> {}],
      [writeFails |-> FALSE, saveFails |-> TRUE, removeFails |-> {}],
      [writeFails |-> FALSE, saveFails |-> FALSE, removeFails |-> {AName}],
      [writeFails |-> FALSE, saveFails |-> FALSE, removeFails |-> {BName}] }

\* the environments of a command: the date, git and a fault case
Envs ==
    {[date |-> Today, git |-> g] @@ f : g \in GitEnvs, f \in FaultCases}

\* what goes wrong in the environment, without git
Faults(env) ==
    [writeFails |-> env.writeFails, saveFails |-> env.saveFails,
     removeFails |-> env.removeFails]

InitCommands ==
    /\ changesetsDir \in {[exists |-> TRUE], [exists |-> FALSE]}
    /\ cfgFile \in ProjectConfigs
    /\ changesDir \in Directories
    /\ ~changesetsDir.exists => (cfgFile = NoFile /\ changesDir = NoDir)
    /\ changelog \in ProjectChangelogs
    /\ out = NoOutput
    /\ releases = 0
    /\ inp = [family |-> "none"]
    /\ content = <<>>
    /\ res = NoResult

\* the persisted state
Project ==
    [changesetsDir |-> changesetsDir, cfgFile |-> cfgFile,
     changesDir |-> changesDir, changelog |-> changelog]

\* a call of listChangesets on the changes directory
ListChangesets ==
    /\ out' = [cmd |-> "listChangesets"] @@ listChangesets(changesDir)
    /\ UNCHANGED <<cfgFile, changesDir, changesetsDir, changelog, releases, parseVars>>

\* the step of `changesets release` that returned r in the environment env
Released(r, env) ==
    /\ cfgFile' = r.cfgFile
    /\ changesDir' = r.changesDir
    /\ changelog' = r.changelog
    /\ out' = [cmd |-> "release", before |-> Project, faults |-> Faults(env),
               stdout |-> r.stdout, err |-> r.err, exit |-> r.exit]
    /\ releases' = releases + 1
    /\ UNCHANGED <<changesetsDir, parseVars>>

\* `changesets release`
CmdRelease ==
    /\ releases < MaxReleases
    /\ \E env \in Envs : Released(cmdRelease(Project, env), env)

NextCommands == ListChangesets \/ CmdRelease

SpecCommands == InitCommands /\ [][NextCommands]_vars

(***************************************************************************)
(* Properties of the listing and of release (checked under SpecCommands).  *)
(***************************************************************************)
Listed == out.cmd = "listChangesets"

\* the entries listChangesets has to parse: files whose name ends with .md
IsMdFile(entry) == ~entry.isDir /\ HasSuffix(entry.name, MdSuffix)
MdFiles(dir) == SelectSeq(dir.entries, IsMdFile)

ValidContents == {changesetContent(RepoName, b, SummaryText) : b \in BumpTypes}

\* a file that cannot be read or does not hold a changeset
Broken(entry) == ~entry.readable \/ entry.content \notin ValidContents

HasBroken(dir) == \E i \in 1..Len(MdFiles(dir)) : Broken(MdFiles(dir)[i])

\* C17: if a .md file of the directory cannot be read or parsed, listChangesets
\* returns an error, the name of such a file and no changeset, wherever the
\* valid files are; a directory that cannot be read is an error with no list.
C17_FailFast ==
    Listed =>
        /\ HasBroken(changesDir) =>
              /\ out.err # "" /\ out.list = <<>>
              /\ \E i \in 1..Len(MdFiles(changesDir)) :
                    /\ Broken(MdFiles(changesDir)[i])
                    /\ out.file = MdFiles(changesDir)[i].name
        /\ ~changesDir.exists => (out.err = ErrReadDir /\ out.list = <<>>)

C17_Witness ==
    /\ Listed /\ Len(MdFiles(changesDir)) = 2
    /\ ~Broken(MdFiles(changesDir)[1]) /\ Broken(MdFiles(changesDir)[2])
    /\ MdFiles(changesDir)[2].readable
    /\ out.err = ErrInvalidBump /\ out.file = BName /\ out.list = <<>>

\* the directory without the entries listChangesets has to skip
OnlyMdFiles(dir) == [exists |-> dir.exists, entries |-> MdFiles(dir)]

\* C18: a successful listing has one changeset per .md file of the directory,
\* in directory order, each with the path of its file; subdirectories (even
\* one named c.md) and other files (.gitkeep) change neither the list nor the
\* error: the listing is that of the directory without them.
C18_OnlyMdFiles ==
    Listed =>
        /\ out.err = "" =>
              /\ Len(out.list) = Len(MdFiles(changesDir))
              /\ \A i \in 1..Len(out.list) :
                    out.list[i].filepath = MdFiles(changesDir)[i].name
        /\ [cmd |-> "listChangesets"] @@ listChangesets(OnlyMdFiles(changesDir)) = out

C18_Witness ==
    /\ Listed /\ Len(changesDir.entries) = 4
    /\ changesDir.entries[1].name = GitkeepName /\ changesDir.entries[4].isDir
    /\ out.err = "" /\ Len(out.list) = 2
    /\ out.list[1].filepath = AName /\ out.list[2].filepath = BName

ReleaseRan == out.cmd = "release"

\* stored versions the version parser rejects
RejectedVersions == {<<"n", "o", "t", "-", "a", "-", "v", "e", "r", "s", "i", "o", "n">>}

\* the project p gives release nothing to compute a version from, or nothing
\* to release
CannotRelease(p) ==
    \/ ~p.changesetsDir.exists
    \/ p.cfgFile.state # "ok"
    \/ ~p.changesDir.exists
    \/ HasBroken(p.changesDir)
    \/ p.cfgFile.version \in RejectedVersions
    \/ MdFiles(p.changesDir) = <<>>

\* config.json, the changes directory and CHANGELOG.md are as before the command
NothingWritten ==
    /\ cfgFile = out.before.cfgFile
    /\ changesDir = out.before.changesDir
    /\ changelog = out.before.changelog

\* C19: if the project is not initialised, config.json is missing or not a
\* config, the changes directory cannot be read, a changeset cannot be read or
\* parsed, the stored version is rejected, or no changeset is pending, release
\* returns an error, prints nothing, and config.json, CHANGELOG.md and the changes
\* directory are as they were.
C19_NoWriteOnError ==
    (ReleaseRan /\ CannotRelease(out.before))
        => /\ out.err # "" /\ out.exit = 1 /\ out.stdout = <<>>
           /\ NothingWritten

C19_Witness ==
    /\ ReleaseRan /\ out.before.changelog.exists
    /\ out.before.cfgFile.version = <<"v", "1", ".", "2", ".", "3">>
    /\ Len(MdFiles(out.before.changesDir)) = 2
    /\ ~Broken(MdFiles(out.before.changesDir)[1])
    /\ Broken(MdFiles(out.before.changesDir)[2])
    /\ out.err = ErrInvalidBump
    /\ NothingWritten

\* the project is released: no changeset file is pending, config.json holds a
\* new version and CHANGELOG.md has a section for it
FullyReleased ==
    /\ changesDir.exists /\ MdFiles(changesDir) = <<>>
    /\ cfgFile.state = "ok" /\ cfgFile.version # out.before.cfgFile.version
    /\ changelog.exists /\ changelog # out.before.changelog
    /\ HasPrefix(cfgFile.version, <<"v">>)
    /\ Contains(changelog.data, <<"\n", "#", "#", " ">> \o cfgFile.version \o <<" ", "-", " ">>)

\* C20 as stated: whenever release returns, with or without an error, the project
\* is either fully released or exactly as it was before the command.
C20_AllOrNothing == ReleaseRan => (FullyReleased \/ NothingWritten)

\* a release that returns no error leaves the project fully released
ReleasedOnSuccess == (ReleaseRan /\ out.err = "") => FullyReleased

(***************************************************************************)
(* Properties of a successful release (checked under SpecCommands).        *)
(***************************************************************************)
\* release returned no error
ReleaseSucceeded == ReleaseRan /\ out.err = ""

\* the names of the entries of a directory
NamesIn(dir) == {dir.entries[i].name : i \in 1..Len(dir.entries)}

\* the entries release has to leave alone: subdirectories and files whose name
\* does not end with .md
NotMdFile(entry) == ~IsMdFile(entry)
OtherEntries(dir) == SelectSeq(dir.entries, NotMdFile)

\* the header line of the section a release of version ver writes today
HeaderLineOf(ver) == <<"#", "#", " ">> \o ver \o <<" ", "-", " ">> \o Today

\* C21: after a release that returns no error, the version printed is the
\* version stored in config.json and the version in the header of the section
\* that now comes first in CHANGELOG.md; no file whose name ends with .md is
\* left directly in the changes directory; .gitkeep, the other files and the
\* subdirectories (even one named c.md) are still there, unchanged.
C21_ReleaseOutcome ==
    ReleaseSucceeded
        => /\ Len(out.stdout) = 1
           /\ cfgFile = [state |-> "ok", version |-> out.stdout[1]]
           /\ changelog.exists
           /\ Lines(changelog.data)[1] = ChangelogTitle
           /\ Lines(changelog.data)[3] = HeaderLineOf(out.stdout[1])
           /\ changesDir.exists /\ MdFiles(changesDir) = <<>>
           /\ changesDir.entries = OtherEntries(out.before.changesDir)

C21_Witness ==
    /\ ReleaseSucceeded
    /\ out.stdout = <<<<"v", "1", ".", "3", ".", "0">>>>
    /\ Len(MdFiles(out.before.changesDir)) = 2
    /\ out.before.changelog.exists
    /\ Len(changesDir.entries) = 2
    /\ changesDir.entries[1].name = GitkeepName
    /\ changesDir.entries[2].isDir /\ changesDir.entries[2].name = CName

\* the entry lines of a changelog document
IsEntryLine(l) == HasPrefix(l, <<"-", " ">>)
EntryLines(s) == SelectSeq(Lines(s), IsEntryLine)

\* the names of the files that were in the changes directory before the command
\* and are not there any more
Deleted == NamesIn(out.before.changesDir) \ NamesIn(changesDir)

\* the paths of the changesets a listing of the directory returns
ListedPaths(dir) ==
    {listChangesets(dir).list[i].filepath : i \in 1..Len(listChangesets(dir).list)}

\* the entries release added to CHANGELOG.md
NewEntries ==
    Len(EntryLines(changelog.data)) - Len(EntryLines(out.before.changelog.data))

\* C30: in a release that returns no error, the files deleted from the changes
\* directory are exactly the files whose changesets were listed, and the
\* changelog has one new entry for each of them.
C30_DeletedAreRecorded ==
    ReleaseSucceeded
        => /\ Deleted = ListedPaths(out.before.changesDir)
           /\ NewEntries = Cardinality(Deleted)
           /\ NamesIn(changesDir) \cap ListedPaths(out.before.changesDir) = {}

C30_Witness ==
    /\ ReleaseSucceeded
    /\ Deleted = {AName, BName}
    /\ NewEntries = 2
    /\ NamesIn(changesDir) = {GitkeepName, CName}

\* release wrote CHANGELOG.md
WroteChangelog == ReleaseRan /\ changelog # out.before.changelog

\* C22: a changeset is consumed once: when a release has written CHANGELOG.md
\* (whether or not it then returned an error) and the next release writes it
\* again, no changeset file the first release listed is listed by the second.
C22_ConsumedOnce ==
    [][(WroteChangelog /\ WroteChangelog')
          => ListedPaths(out.before.changesDir) \cap ListedPaths(changesDir) = {}]_vars

(***************************************************************************)
(* words.go: generateSlug.  The random source is rnd: the words drawn at   *)
(* each attempt (first until attempt switchAt, then `then`) and the number *)
(* of reads of rand.Reader that succeed (-1: all of them).                 *)
(***************************************************************************)
MaxAttempts == 100

\* the first words of the two lists
adjectives == <<<<"a", "n", "g", "r", "y">>, <<"b", "r", "a", "v", "e">>>>
nouns == <<<<"a", "n", "t">>, <<"b", "e", "a", "r">>>>

ErrRandom == "failed to generate random number"
ErrSlugExhausted == "failed to generate unique slug after 100 attempts"

\* the indexes rand.Int returns at one attempt
drawAt(rnd, attempts) == IF attempts < rnd.switchAt THEN rnd.first ELSE rnd.then

\* one of the three randomElement calls of the attempt fails
randomFails(rnd, attempts) == rnd.reads >= 0 /\ rnd.reads < 3 * (attempts + 1)

\* fmt.Sprintf("%s-%s-%s", adj1, adj2, noun)
slugOf(d) ==
    adjectives[d.adj1 + 1] \o <<"-">> \o adjectives[d.adj2 + 1] \o <<"-">> \o nouns[d.noun + 1]

\* the slug of every draw
Draws ==
    [adj1 : 0..(Len(adjectives) - 1), adj2 : 0..(Len(adjectives) - 1),
     noun : 0..(Len(nouns) - 1)]
Slugs == [d \in Draws |-> slugOf(d)]

slugToFilename(slug) == slug \o MdSuffix
SlugFiles == [d \in Draws |-> slugToFilename(Slugs[d])]

\* os.Stat(path) returns no error: an entry of that name is in the directory
statExists(dir, name) ==
    dir.exists /\ \E i \in 1..Len(dir.entries) : dir.entries[i].name = name

\* the attempts at which the loop of generateSlug returns: a read of the
\* random source fails, or no entry has the name drawn
returnsAt(dir, rnd) ==
    {a \in 0..(MaxAttempts - 1) :
        randomFails(rnd, a) \/ ~statExists(dir, SlugFiles[drawAt(rnd, a)])}

\* the first attempt that returns, or MaxAttempts if none does
firstOf(S) == IF S = {} THEN MaxAttempts ELSE CHOOSE a \in S : \A b \in S : a <= b

\* a slug generator that returns its first draw without looking at the directory
generateAtBlind(rnd, attempts) ==
    IF randomFails(rnd, 0) THEN [slug |-> <<>>, err |-> ErrRandom]
    ELSE [slug |-> Slugs[drawAt(rnd, 0)], err |-> ""]

\* the return of generateSlug when the loop ends at the given attempt
generateAt(rnd, attempts) ==
    IF attempts >= MaxAttempts THEN [slug |-> <<>>, err |-> ErrSlugExhausted]
    ELSE IF randomFails(rnd, attempts) THEN [slug |-> <<>>, err |-> ErrRandom]
    ELSE [slug |-> Slugs[drawAt(rnd, attempts)], err |-> ""]

generateSlug(dir, rnd) == generateAt(rnd, firstOf(returnsAt(dir, rnd)))

(***************************************************************************)
(* config.go: findRoot and moduleName.  gomod is what the walk up from the *)
(* working directory meets: [cwd, found, opens, lines, readFails]; opens    *)
(* says whether go.mod can be opened, lines are the lines the scanner      *)
(* returns and readFails whether it then stops with an error.              *)
(***************************************************************************)
ErrGetwd == "get working directory"
ErrNoGoMod == "could not find go.mod in any parent directory"
ErrOpenGoMod == "open go.mod"
ErrReadGoMod == "read go.mod"
ErrNoModule == "module directive not found in go.mod"

findRoot(gomod) ==
    IF ~gomod.cwd THEN ErrGetwd
    ELSE IF ~gomod.found THEN ErrNoGoMod
    ELSE ""

ModulePrefix == <<"m", "o", "d", "u", "l", "e", " ">>

\* the last segment of the module path of a module line
lastSegment(parts) == parts[Len(parts)]

\* the scanner loop of moduleName and the returns after it
RECURSIVE moduleScan(_, _)
moduleScan(lines, readFails) ==
    IF lines = <<>>
    THEN [name |-> <<>>, err |-> IF readFails THEN ErrReadGoMod ELSE ErrNoModule]
    ELSE IF HasPrefix(TrimSpace(Head(lines)), ModulePrefix)
         THEN [name |-> lastSegment(Split(TrimSpace(TrimPrefix(TrimSpace(Head(lines)),
                                                              ModulePrefix)), <<"/">>)),
               err |-> ""]
    ELSE moduleScan(Tail(lines), readFails)

moduleName(gomod) ==
    IF ~gomod.opens THEN [name |-> <<>>, err |-> ErrOpenGoMod]
    ELSE moduleScan(gomod.lines, gomod.readFails)

(***************************************************************************)
(* main.go: cmdAdd and cmdInit.  stdin is the sequence of lines the        *)
(* scanner can still read.  A command returns the project it leaves, the   *)
(* version lines and the prompts and messages it printed, and its error.   *)
(***************************************************************************)
ErrNoInput == "no input received"
ErrInvalidSelection == "invalid selection"
ErrEmptySummary == "summary cannot be empty"
ErrWriteChangeset == "failed to write changeset file"
ErrRemoveAll == "failed to remove existing .changesets"
ErrMkdirAll == "failed to create changes directory"
ErrWriteReadme == "failed to write README.md"
ErrWriteGitkeep == "failed to write .gitkeep"

SelectPrompt == "Select [1/2/3]: "
SummaryPrompt == "Summary: "
ConfirmPrompt == "Confirm? (y/n): "
RecreatePrompt == ".changesets already exists. Recreate? (y/n): "
Aborted == "Aborted."
Created == "Created changeset"
Initialized == "Initialized .changesets directory."
Usage == "usage"

\* what a command returns to main
ran(p, stdout, said, err) ==
    [project |-> p, stdout |-> stdout, said |-> said, err |-> err,
     exit |-> exitStatus(err)]

\* strings.EqualFold(answer, "y")
EqualFoldY(answer) == answer \in {<<"y">>, <<"Y">>}

\* the switch on the trimmed choice: the bump, or <<>> for the default case
selection(choice) ==
    IF choice \in {<<"1">>, <<"p", "a", "t", "c", "h">>} THEN patch
    ELSE IF choice \in {<<"2">>, <<"m", "i", "n", "o", "r">>} THEN minor
    ELSE IF choice \in {<<"3">>, <<"m", "a", "j", "o", "r">>} THEN major
    ELSE <<>>

\* the order of file names in a directory listing: byte by byte
ByteOrder ==
    <<"-", ".", "0", "1", "2", "3", "4", "5", "6", "7", "8", "9",
      "a", "b", "c", "d", "e", "f", "g", "h", "i", "j", "k", "l", "m",
      "n", "o", "p", "q", "r", "s", "t", "u", "v", "w", "x", "y", "z">>

ByteRank(c) == CHOOSE i \in 1..Len(ByteOrder) : ByteOrder[i] = c

RECURSIVE NameBefore(_, _)
NameBefore(a, b) ==
    IF b = <<>> THEN FALSE
    ELSE IF a = <<>> THEN TRUE
    ELSE IF Head(a) # Head(b) THEN ByteRank(Head(a)) < ByteRank(Head(b))
    ELSE NameBefore(Tail(a), Tail(b))

\* the entries after a file called name has been written, in listing order
RECURSIVE withFile(_, _, _)
withFile(entries, name, data) ==
    IF entries = <<>> THEN <<Entry(name, FALSE, TRUE, data)>>
    ELSE IF Head(entries).name = name
         THEN <<Entry(name, FALSE, TRUE, data)>> \o Tail(entries)
    ELSE IF NameBefore(name, Head(entries).name)
         THEN <<Entry(name, FALSE, TRUE, data)>> \o entries
    ELSE <<Head(entries)>> \o withFile(Tail(entries), name, data)

\* os.WriteFile(filePath, content, 0644) in the changes directory: it fails if
\* the directory is missing or not writable, or if the name is a directory
writeChangeset(dir, name, data, writeFails) ==
    IF ~dir.exists \/ writeFails
          \/ \E i \in 1..Len(dir.entries) : dir.entries[i].name = name /\ dir.entries[i].isDir
    THEN [err |-> ErrWriteChangeset, dir |-> dir]
    ELSE [err |-> "", dir |-> [exists |-> TRUE, entries |-> withFile(dir.entries, name, data)]]

\* the project with another changes directory
withChanges(p, dir) == [p EXCEPT !.changesDir = dir]

AddPrompts == <<SelectPrompt, SummaryPrompt, ConfirmPrompt>>

\* a return of cmdAdd after n prompts that leaves the project as it was
addReturned(p, n, said, err) == ran(p, <<>>, SubSeq(AddPrompts, 1, n) \o said, err)

\* cmdAdd after os.WriteFile returned w
addWritten(p, w) ==
    IF w.err # "" THEN addReturned(p, 3, <<>>, w.err)
    ELSE ran(withChanges(p, w.dir), <<>>, AddPrompts \o <<Created>>, "")

\* cmdAdd after generateSlug returned g
addSlugged(p, env, data, g) ==
    IF g.err # "" THEN addReturned(p, 3, <<>>, g.err)
    ELSE addWritten(p, writeChangeset(p.changesDir, slugToFilename(g.slug), data,
                                      env.writeFails))

\* an add that writes the file whatever the answer to the confirmation
addUnconfirmed(p, stdin, env, data) ==
    IF Len(stdin) < 3 THEN addReturned(p, 3, <<>>, ErrNoInput)
    ELSE addSlugged(p, env, data, generateSlug(p.changesDir, env.rnd))

\* cmdAdd from the confirmation on
addConfirm(p, stdin, env, data) ==
    IF Len(stdin) < 3 THEN addReturned(p, 3, <<>>, ErrNoInput)
    ELSE IF ~EqualFoldY(TrimSpace(stdin[3])) THEN addReturned(p, 3, <<Aborted>>, "")
    ELSE addSlugged(p, env, data, generateSlug(p.changesDir, env.rnd))

\* cmdAdd from the summary on
addSummary(p, stdin, env, repoName, bump) ==
    IF Len(stdin) < 2 THEN addReturned(p, 2, <<>>, ErrNoInput)
    ELSE IF TrimSpace(stdin[2]) = <<>> THEN addReturned(p, 2, <<>>, ErrEmptySummary)
    ELSE addConfirm(p, stdin, env, changesetContent(repoName, bump, TrimSpace(stdin[2])))

\* cmdAdd from the selection on
addSelect(p, stdin, env, repoName) ==
    IF Len(stdin) < 1 THEN addReturned(p, 1, <<>>, ErrNoInput)
    ELSE IF selection(TrimSpace(stdin[1])) = <<>>
         THEN addReturned(p, 1, <<>>, ErrInvalidSelection)
    ELSE addSummary(p, stdin, env, repoName, selection(TrimSpace(stdin[1])))

\* cmdAdd after moduleName returned m
addNamed(p, stdin, env, m) ==
    IF m.err # "" THEN addReturned(p, 0, <<>>, m.err)
    ELSE addSelect(p, stdin, env, m.name)

cmdAdd(p, stdin, env) == addNamed(p, stdin, env, moduleName(env.gomod))

\* the project without a .changesets directory, and the one init creates step
\* by step: the directories, config.json, README.md, .gitkeep
removedAll(p) ==
    [p EXCEPT !.changesetsDir = [exists |-> FALSE, readme |-> FALSE],
              !.cfgFile = NoFile, !.changesDir = NoDir]
madeDirs(p) ==
    [p EXCEPT !.changesetsDir = [exists |-> TRUE, readme |-> p.changesetsDir.readme],
              !.changesDir = [exists |-> TRUE, entries |-> p.changesDir.entries]]
withConfig(p, file) == [p EXCEPT !.cfgFile = file]
withReadme(p) == [p EXCEPT !.changesetsDir = [exists |-> TRUE, readme |-> TRUE]]
withGitkeep(p) ==
    withChanges(p, [exists |-> TRUE,
                    entries |-> withFile(p.changesDir.entries, GitkeepName, <<>>)])

InitialVersion == <<"v", "0", ".", "0", ".", "0">>

\* cmdInit from the write of README.md on
initReadme(p, said, fails) ==
    IF fails = "readme" THEN ran(p, <<>>, said, ErrWriteReadme)
    ELSE IF fails = "gitkeep" THEN ran(withReadme(p), <<>>, said, ErrWriteGitkeep)
    ELSE ran(withGitkeep(withReadme(p)), <<>>, said \o <<Initialized>>, "")

\* cmdInit after saveConfig returned s
initSaved(p, said, fails, s) ==
    IF s.err # "" THEN ran(p, <<>>, said, s.err)
    ELSE initReadme(withConfig(p, s.file), said, fails)

\* cmdInit from os.MkdirAll on
initCreate(p, said, fails) ==
    IF fails = "mkdirAll" THEN ran(p, <<>>, said, ErrMkdirAll)
    ELSE initSaved(madeDirs(p), said, fails,
                   saveConfig(p.cfgFile, InitialVersion, fails = "saveConfig"))

\* an init that recreates an existing .changesets whatever the answer
initExistingUnasked(p, stdin, fails) ==
    initCreate(removedAll(p), <<RecreatePrompt>>, fails)

\* cmdInit when .changesets exists
initExisting(p, stdin, fails) ==
    IF Len(stdin) < 1 THEN ran(p, <<>>, <<RecreatePrompt>>, ErrNoInput)
    ELSE IF ~EqualFoldY(TrimSpace(stdin[1]))
         THEN ran(p, <<>>, <<RecreatePrompt, Aborted>>, "")
    ELSE IF fails = "removeAll" THEN ran(p, <<>>, <<RecreatePrompt>>, ErrRemoveAll)
    ELSE initCreate(removedAll(p), <<RecreatePrompt>>, fails)

\* fails names the step of init that fails, or is "none"
cmdInit(p, stdin, fails) ==
    IF p.changesetsDir.exists THEN initExisting(p, stdin, fails)
    ELSE initCreate(p, <<>>, fails)

(***************************************************************************)
(* main.go: main.  args is os.Args; what main leaves is the project, what  *)
(* it printed, the error it reported on standard error and its exit status.*)
(***************************************************************************)
ErrUnknownCommand == "unknown command"

\* var version = "dev"
version == <<"d", "e", "v">>

HelpArgs == {"help", "--help", "-h"}
VersionArgs == {"version", "--version", "-v"}

exited(p, stdout, said, err, exit) ==
    [project |-> p, stdout |-> stdout, said |-> said, err |-> err, exit |-> exit]

\* a next that stores the version it prints
nextRanStoring(p, r) ==
    ran(IF r.err = "" THEN withConfig(p, [state |-> "ok", version |-> r.stdout[1]]) ELSE p,
        r.stdout, <<>>, r.err)

\* cmdNext and cmdRelease as main sees them
nextRan(p, r) == ran(p, r.stdout, <<>>, r.err)

releaseRan(p, r) ==
    ran([p EXCEPT !.cfgFile = r.cfgFile, !.changesDir = r.changesDir,
                  !.changelog = r.changelog],
        r.stdout, <<>>, r.err)

\* the second switch of main
mainCommand(cmd, p, stdin, env) ==
    IF cmd = "init" THEN cmdInit(p, stdin, env.initFails)
    ELSE IF cmd = "add" THEN cmdAdd(p, stdin, env)
    ELSE IF cmd = "next" THEN nextRan(p, cmdNext(p.cfgFile, p.changesDir))
    ELSE IF cmd = "release" THEN releaseRan(p, cmdRelease(p, env))
    ELSE exited(p, <<>>, <<Usage>>, ErrUnknownCommand, 1)

main(args, p, stdin, env) ==
    IF Len(args) < 2 THEN exited(p, <<>>, <<Usage>>, "", 1)
    ELSE IF args[2] \in HelpArgs THEN exited(p, <<>>, <<Usage>>, "", 0)
    ELSE IF args[2] \in VersionArgs THEN exited(p, <<version>>, <<>>, "", 0)
    ELSE IF findRoot(env.gomod) # "" THEN exited(p, <<>>, <<>>, findRoot(env.gomod), 1)
    ELSE mainCommand(args[2], p, stdin, env)

(***************************************************************************)
(* The command line on a project: init, add, next and release run one      *)
(* after another, each with the lines it finds on standard input and the   *)
(* environment it meets.                                                   *)
(***************************************************************************)
Program == "changesets"

AngryName == slugToFilename(<<"a", "n", "g", "r", "y", "-", "a", "n", "g", "r", "y", "-", "a", "n", "t">>)
BraveName == slugToFilename(<<"b", "r", "a", "v", "e", "-", "a", "n", "g", "r", "y", "-", "a", "n", "t">>)

GoModOk ==
    [cwd |-> TRUE, found |-> TRUE, opens |-> TRUE, readFails |-> FALSE,
     lines |-> <<<<"m", "o", "d", "u", "l", "e", " ", "x", "/", "a">>>>]
NoGoMod ==
    [cwd |-> TRUE, found |-> FALSE, opens |-> FALSE, readFails |-> FALSE, lines |-> <<>>]

\* go.mod with a module line, not found, found without a module line, found
\* but unreadable (it cannot be opened, or the scanner fails after a line),
\* and a working directory that cannot be determined
GoMods ==
    { GoModOk, NoGoMod,
      [GoModOk EXCEPT !.lines = <<<<"g", "o", " ", "1", ".", "2", "2">>>>],
      [GoModOk EXCEPT !.opens = FALSE, !.lines = <<>>],
      [GoModOk EXCEPT !.lines = <<<<"g", "o", " ", "1", ".", "2", "2">>>>, !.readFails = TRUE],
      [NoGoMod EXCEPT !.cwd = FALSE] }

\* random sources: every read succeeds (reads = -1), or only the first `reads`
ZeroReader == [first |-> [adj1 |-> 0, adj2 |-> 0, noun |-> 0], switchAt |-> 0,
               then |-> [adj1 |-> 0, adj2 |-> 0, noun |-> 0], reads |-> -1]
BraveAfter(k) == [ZeroReader EXCEPT !.switchAt = k, !.then.adj1 = 1]
Rnds ==
    { ZeroReader, BraveAfter(0), BraveAfter(1), BraveAfter(MaxAttempts - 1),
      [ZeroReader EXCEPT !.reads = 0], [ZeroReader EXCEPT !.reads = 4] }

AddInputs ==
    { <<>>, <<<<"1">>>>, <<<<"1">>, <<"x">>>>, <<<<"1">>, <<"x">>, <<"y">>>>, <<<<" ", "m", "i", "n", "o", "r", " ">>, <<" ", "x", " ">>, <<" ", "Y", " ">>>>,
      <<<<"3">>, <<"x">>, <<"n">>>>, <<<<"p", "a", "t", "c", "h">>, <<"x">>, <<>>>>, <<<<"2">>, <<"x">>, <<"y", "e", "s">>>>,
      <<<<"4">>, <<"x">>, <<"y">>>>, <<<<>>, <<"x">>, <<"y">>>>, <<<<"m", "a", "j", "o", "r">>, <<" ">>, <<"y">>>> }

\* the runs of add: the usual environment with each input, and a valid,
\* confirmed input where go.mod, the random source or the write is unusual
UsualAdd == [gomod |-> GoModOk, rnd |-> ZeroReader, writeFails |-> FALSE]
AddRuns ==
    {[stdin |-> i, env |-> UsualAdd] : i \in AddInputs}
    \cup {[stdin |-> <<<<"1">>, <<"x">>, <<"y">>>>, env |-> [UsualAdd EXCEPT !.gomod = g]] :
             g \in GoMods}
    \cup {[stdin |-> <<<<"1">>, <<"x">>, <<"y">>>>, env |-> [UsualAdd EXCEPT !.rnd = r]] :
             r \in Rnds}
    \cup {[stdin |-> <<<<"1">>, <<"x">>, <<"y">>>>, env |-> [UsualAdd EXCEPT !.writeFails = TRUE]]}

InitInputs == { <<>>, <<<<"y">>>>, <<<<" ", "Y", " ">>>>, <<<<"n">>>>, <<<<"y", "e", "s">>>>, <<<<>>>> }
\* the step of init that fails: none, os.RemoveAll or os.MkdirAll
InitFailures == {"none", "removeAll", "mkdirAll"}

UsualInit == [gomod |-> GoModOk, initFails |-> "none"]
InitRuns ==
    {[stdin |-> i, env |-> UsualInit] : i \in InitInputs}
    \cup {[stdin |-> <<<<"y">>>>, env |-> [UsualInit EXCEPT !.gomod = NoGoMod]]}
    \cup {[stdin |-> <<<<"y">>>>, env |-> [UsualInit EXCEPT !.initFails = f]] :
             f \in InitFailures}

NextEnvs == {[gomod |-> g] : g \in {GoModOk, NoGoMod}}

CliGit == [p \in {AngryName} |-> [fails |-> FALSE, out |-> <<"a", "b", "1", "2", "\n">>]]
CliFaults ==
    { [writeFails |-> FALSE, saveFails |-> FALSE, removeFails |-> {}],
      [writeFails |-> TRUE, saveFails |-> FALSE, removeFails |-> {}],
      [writeFails |-> FALSE, saveFails |-> TRUE, removeFails |-> {}],
      [writeFails |-> FALSE, saveFails |-> FALSE, removeFails |-> {AngryName}] }
UsualRelease == [gomod |-> GoModOk] @@ NoFaults(Today, CliGit)
ReleaseEnvs ==
    {[gomod |-> GoModOk, date |-> Today, git |-> CliGit] @@ f : f \in CliFaults}
    \cup {[UsualRelease EXCEPT !.gomod = NoGoMod]}

OtherRuns ==
    {[args |-> <<Program, a>>, env |-> [gomod |-> GoModOk]] :
        a \in HelpArgs \cup VersionArgs \cup {"bogus"}}
    \cup {[args |-> <<Program>>, env |-> [gomod |-> GoModOk]]}
    \cup {[args |-> <<Program, a>>, env |-> [gomod |-> NoGoMod]] : a \in {"help", "bogus"}}

MaxCliReleases == 1

CliVersions == { <<"v", "1", ".", "2", ".", "3", "-", "r", "c", ".", "1">>, <<"n", "o", "t", "-", "a", "-", "v", "e", "r", "s", "i", "o", "n">> }
CliConfigs == {[state |-> "ok", version |-> v] : v \in CliVersions}

\* .gitkeep, perhaps a pending angry-angry-ant.md, and a subdirectory called c.md
CliDirectories ==
    {[exists |-> TRUE,
      entries |-> <<Entry(GitkeepName, FALSE, TRUE, <<>>)>> \o a
                      \o <<Entry(CName, TRUE, TRUE, <<>>)>>] :
        a \in {<<>>, <<Entry(AngryName, FALSE, TRUE,
                             changesetContent(RepoName, patch, SummaryText))>>}}

Uninitialised == [exists |-> FALSE, readme |-> FALSE]

InitCli ==
    /\ changesetsDir \in {Uninitialised, [exists |-> TRUE, readme |-> TRUE]}
    /\ cfgFile \in CliConfigs \cup {NoFile}
    /\ changesDir \in CliDirectories \cup {NoDir}
    /\ changesetsDir.exists <=> changesDir.exists
    /\ changesetsDir.exists <=> cfgFile # NoFile
    /\ changelog = NoChangelog
    /\ out = NoOutput
    /\ releases = 0
    /\ inp = [family |-> "none"]
    /\ content = <<>>
    /\ res = NoResult

\* the command named on the command line, "" when there is none
CommandOf(args) == IF Len(args) < 2 THEN "" ELSE args[2]

\* the step of a run of the program that returned r
Ran(args, stdin, env, r) ==
    /\ cfgFile' = r.project.cfgFile
    /\ changesDir' = r.project.changesDir
    /\ changesetsDir' = r.project.changesetsDir
    /\ changelog' = r.project.changelog
    /\ out' = [cmd |-> CommandOf(args), args |-> args, stdin |-> stdin, env |-> env,
               before |-> Project, stdout |-> r.stdout, said |-> r.said,
               err |-> r.err, exit |-> r.exit]
    /\ UNCHANGED parseVars

\* `changesets init`
RunInit ==
    /\ \E c \in InitRuns :
          Ran(<<Program, "init">>, c.stdin, c.env,
              main(<<Program, "init">>, Project, c.stdin, c.env))
    /\ UNCHANGED releases

\* `changesets add`
RunAdd ==
    /\ \E c \in AddRuns :
          Ran(<<Program, "add">>, c.stdin, c.env,
              main(<<Program, "add">>, Project, c.stdin, c.env))
    /\ UNCHANGED releases

\* `changesets next`
RunNext ==
    /\ \E env \in NextEnvs :
          Ran(<<Program, "next">>, <<>>, env, main(<<Program, "next">>, Project, <<>>, env))
    /\ UNCHANGED releases

\* `changesets release`
RunRelease ==
    /\ releases < MaxCliReleases
    /\ \E env \in ReleaseEnvs :
          Ran(<<Program, "release">>, <<>>, env,
              main(<<Program, "release">>, Project, <<>>, env))
    /\ releases' = releases + 1

\* the program run without a command, for help, for its version, or with a
\* command it does not know
RunOther ==
    /\ \E c \in OtherRuns : Ran(c.args, <<>>, c.env, main(c.args, Project, <<>>, c.env))
    /\ UNCHANGED releases

NextCli == RunInit \/ RunAdd \/ RunNext \/ RunRelease \/ RunOther

SpecCli == InitCli /\ [][NextCli]_vars

(***************************************************************************)
(* Properties of the command line (checked under SpecCli).                 *)
(***************************************************************************)
\* the last run of the program was the given command
Last(cmd) == out.cmd = cmd

\* the project is as it was before the last run
ProjectUnchanged == Project = out.before

\* changesets are pending in the directory
PendingIn(dir) == dir.exists /\ MdFiles(dir) # <<>>

\* this step is a release that succeeds right after a next that succeeded with
\* changesets pending
ReleaseAfterNext ==
    /\ Last("next") /\ out.err = "" /\ PendingIn(out.before.changesDir)
    /\ out'.cmd = "release" /\ out'.err = ""

\* C23: next leaves config.json, CHANGELOG.md and the changes directory as they
\* were, whether it succeeds or fails, and prints a version only if it
\* succeeds; when changesets are pending, a release that succeeds right after
\* it prints the version next printed and stores it in config.json.
C23_NextIsPreview ==
    [][ /\ out'.cmd = "next"
            => /\ Project' = out'.before
               /\ (out'.err # "") = (out'.stdout = <<>>)
        /\ ReleaseAfterNext
            => /\ out'.stdout = out.stdout
               /\ cfgFile' = [state |-> "ok", version |-> out.stdout[1]] ]_vars

C23_Witness ==
    /\ Last("next") /\ out.err = "" /\ PendingIn(out.before.changesDir)
    /\ out.before.cfgFile.version = <<"v", "1", ".", "2", ".", "3", "-", "r", "c", ".", "1">>
    /\ out.stdout = <<<<"v", "1", ".", "2", ".", "3">>>>
    /\ cfgFile.version = <<"v", "1", ".", "2", ".", "3", "-", "r", "c", ".", "1">>
    /\ ProjectUnchanged

\* the first line of standard input is y or Y, surrounded by blanks or not
Confirmed(stdin) == stdin # <<>> /\ TrimSpace(stdin[1]) \in {<<"y">>, <<"Y">>}

\* what init creates: config.json with v0.0.0, README.md, and a changes
\* directory that holds .gitkeep and nothing else
FreshStructure ==
    /\ changesetsDir = [exists |-> TRUE, readme |-> TRUE]
    /\ cfgFile = [state |-> "ok", version |-> <<"v", "0", ".", "0", ".", "0">>]
    /\ changesDir = [exists |-> TRUE, entries |-> <<Entry(GitkeepName, FALSE, TRUE, <<>>)>>]

\* the project has no .changesets directory, no config.json and no changesets
NoStructure == ~changesetsDir.exists /\ cfgFile = NoFile /\ changesDir = NoDir

\* .changesets exists and the answer to the prompt is not y or Y
Unconfirmed == out.before.changesetsDir.exists /\ ~Confirmed(out.stdin)

\* C24 as stated: when .changesets exists and the answer is not y or Y, init
\* leaves the stored version and the changes directory as they were; when
\* .changesets is absent, or the answer is y or Y, the result is config.json
\* with v0.0.0 and a changes directory holding only .gitkeep.
C24_InitFreshOrUntouched ==
    Last("init")
        => /\ Unconfirmed => ProjectUnchanged
           /\ ~Unconfirmed => FreshStructure /\ MdFiles(changesDir) = <<>>

\* C24: when .changesets exists and the answer to the prompt is not y or Y,
\* init leaves the stored version and the changes directory as they were
\* (without an answer it returns an error, with another answer it says
\* Aborted); when .changesets is absent, or the answer is y or Y, init leaves
\* config.json with v0.0.0 and a changes directory holding only .gitkeep if it
\* returns no error; when it returns an error it exits with status
\* 1 without saying Initialized, it has changed nothing if no project root was
\* found, and it leaves no .changesets at all if creating the directories
\* failed after a confirmed removal; CHANGELOG.md is never touched.
C24_InitConfirmed ==
    Last("init")
        => /\ Unconfirmed
                => /\ ProjectUnchanged
                   /\ out.stdin = <<>> => out.err # "" /\ out.exit = 1
                   /\ (out.stdin # <<>> /\ out.env.gomod.found)
                        => out.err = "" /\ out.said = <<RecreatePrompt, Aborted>>
           /\ ~Unconfirmed
                => /\ out.err = ""
                        => FreshStructure /\ MdFiles(changesDir) = <<>> /\ out.exit = 0
                   /\ out.err # ""
                        => /\ out.exit = 1
                           /\ \A i \in 1..Len(out.said) : out.said[i] # Initialized
                   /\ ~out.env.gomod.found => out.err # "" /\ ProjectUnchanged
                   /\ (out.err = ErrMkdirAll /\ out.before.changesetsDir.exists)
                        => NoStructure
           /\ changelog = out.before.changelog

C24_Witness ==
    /\ Last("init") /\ out.stdin = <<<<"n">>>>
    /\ PendingIn(out.before.changesDir)
    /\ out.before.cfgFile.version = <<"v", "1", ".", "2", ".", "3", "-", "r", "c", ".", "1">>
    /\ out.err = "" /\ ProjectUnchanged /\ ~FreshStructure

\* an existing project with a pending changeset was recreated
InitRecreated ==
    /\ Last("init") /\ out.stdin = <<<<" ", "Y", " ">>>>
    /\ PendingIn(out.before.changesDir)
    /\ out.err = "" /\ FreshStructure

\* a confirmed init removed an existing project with a pending changeset and
\* failed to create the directories
InitRemovedOnly ==
    /\ Last("init") /\ Confirmed(out.stdin)
    /\ PendingIn(out.before.changesDir)
    /\ out.err = ErrMkdirAll /\ out.exit = 1 /\ NoStructure

\* the bump a selection stands for
ChosenBump ==
    [c \in {<<"1">>, <<"2">>, <<"3">>, <<"p", "a", "t", "c", "h">>, <<"m", "i", "n", "o", "r">>, <<"m", "a", "j", "o", "r">>} |->
        IF c \in {<<"1">>, <<"p", "a", "t", "c", "h">>} THEN patch
        ELSE IF c \in {<<"2">>, <<"m", "i", "n", "o", "r">>} THEN minor ELSE major]

\* the three lines add reads: a selection, a summary that is not blank, y or Y
ValidAdd(stdin) ==
    /\ Len(stdin) >= 3
    /\ TrimSpace(stdin[1]) \in DOMAIN ChosenBump
    /\ TrimSpace(stdin[2]) # <<>>
    /\ TrimSpace(stdin[3]) \in {<<"y">>, <<"Y">>}

\* the entries that are in the changes directory now and were not before
NewEntriesOf(dir, old) ==
    SelectSeq(dir.entries, LAMBDA e : e.name \notin NamesIn(old))

\* every entry that was in the changes directory is still there, as it was
EntriesKept ==
    \A i \in 1..Len(out.before.changesDir.entries) :
        \E j \in 1..Len(changesDir.entries) :
            changesDir.entries[j] = out.before.changesDir.entries[i]

\* exactly one file was added to the changes directory and nothing else changed
CreatedOne ==
    /\ changesDir.exists
    /\ Len(changesDir.entries) = Len(out.before.changesDir.entries) + 1
    /\ Len(NewEntriesOf(changesDir, out.before.changesDir)) = 1
    /\ EntriesKept

\* the file add wrote for the lines it read, in a module whose name is a
WrittenAsChosen(entry, stdin) ==
    /\ ~entry.isDir /\ HasSuffix(entry.name, MdSuffix)
    /\ entry.content = Dashes \o <<"\n">> \o <<"a", ":", " ">> \o ChosenBump[TrimSpace(stdin[1])]
                          \o <<"\n">> \o Dashes \o <<"\n", "\n">> \o TrimSpace(stdin[2]) \o <<"\n">>

\* add touched neither config.json nor CHANGELOG.md nor .changesets itself
AddFrame ==
    /\ cfgFile = out.before.cfgFile
    /\ changelog = out.before.changelog
    /\ changesetsDir = out.before.changesetsDir

\* C25 as stated: add creates exactly one new changeset file if and only if
\* the selection is valid, the summary is not empty and the confirmation is y
\* or Y; otherwise the changes directory is unchanged.
C25_CreatesIffValid ==
    Last("add")
        => /\ CreatedOne <=> ValidAdd(out.stdin)
           /\ ~ValidAdd(out.stdin) => changesDir = out.before.changesDir
           /\ AddFrame

\* C25: add creates exactly one new changeset file if and only if the
\* selection is valid, the summary is not empty, the confirmation is y or Y,
\* and add returns no error; the file holds the chosen bump and the trimmed
\* summary; in every other case the changes directory is unchanged; add never
\* changes config.json, CHANGELOG.md or an entry that was there.
C25_CreatesIfValidAndNoError ==
    Last("add")
        => /\ CreatedOne <=> (ValidAdd(out.stdin) /\ out.err = "")
           /\ CreatedOne
                => WrittenAsChosen(NewEntriesOf(changesDir, out.before.changesDir)[1],
                                   out.stdin)
           /\ ~CreatedOne => changesDir = out.before.changesDir
           /\ EntriesKept
           /\ AddFrame

C25_Witness ==
    /\ Last("add") /\ out.stdin = <<<<" ", "m", "i", "n", "o", "r", " ">>, <<" ", "x", " ">>, <<" ", "Y", " ">>>>
    /\ Len(out.before.changesDir.entries) = 2
    /\ CreatedOne /\ out.err = ""
    /\ NewEntriesOf(changesDir, out.before.changesDir)[1].name = AngryName
    /\ changesDir.entries[2].name = AngryName
    /\ NewEntriesOf(changesDir, out.before.changesDir)[1].content
           = <<"-", "-", "-", "\n", "a", ":", " ", "m", "i", "n", "o", "r", "\n", "-", "-", "-", "\n", "\n", "x", "\n">>

\* the prompts among the things the last run printed
Prompts == {SelectPrompt, SummaryPrompt, ConfirmPrompt, RecreatePrompt}
Asked == SelectSeq(out.said, LAMBDA m : m \in Prompts)

\* add, next or release ran in a project root that has no .changesets directory
RanUninitialised ==
    /\ out.cmd \in {"add", "next", "release"}
    /\ out.env.gomod = GoModOk
    /\ ~out.before.changesetsDir.exists

\* C26 as stated: without a .changesets directory add, next and release each
\* fail with the error that says to run `changesets init`, before any prompt,
\* and leave every file as it was.
C26_NotInitialisedReported ==
    RanUninitialised
        => /\ out.err = ErrNotInitialised /\ out.exit = 1
           /\ Asked = <<>>
           /\ ProjectUnchanged

\* what release does without a .changesets directory
ReleaseReportsUninitialised ==
    (RanUninitialised /\ Last("release"))
        => out.err = ErrNotInitialised /\ out.exit = 1 /\ ProjectUnchanged

Commands == {"init", "add", "next", "release"}

\* a line that is a version as next and release print it: v, then digits and dots
IsVersionLine(l) ==
    /\ HasPrefix(l, <<"v">>) /\ Len(l) >= 6
    /\ \A i \in 2..Len(l) : l[i] \in Digits \cup {"."}

\* C27: the program exits 0 for help and for version (whether or not a project
\* root is found) and for init, add, next and release when the command returns
\* no error; it exits 1 without a command, with an unknown command, when no
\* go.mod is found above the working directory, and when the command returns
\* an error; next and release print one line, a version, when they succeed
\* and nothing on standard output otherwise.
C27_ExitStatus ==
    out # NoOutput =>
       /\ out.exit \in {0, 1}
       /\ Len(out.args) < 2 => out.exit = 1
       /\ (Len(out.args) >= 2 /\ out.args[2] \in HelpArgs \cup VersionArgs) => out.exit = 0
       /\ (Len(out.args) >= 2 /\ out.args[2] \in VersionArgs) => out.stdout = <<version>>
       /\ (Len(out.args) >= 2 /\ out.args[2] \notin HelpArgs \cup VersionArgs)
            => /\ out.args[2] \notin Commands => out.exit = 1
               /\ ~out.env.gomod.found => out.exit = 1 /\ out.err # "" /\ ProjectUnchanged
               /\ (out.args[2] \in Commands /\ out.env.gomod.found)
                    => (out.exit = 0) = (out.err = "")
       /\ out.cmd \in {"next", "release"}
            => IF out.exit = 0
               THEN Len(out.stdout) = 1 /\ (out.cmd = "release" => IsVersionLine(out.stdout[1]))
               ELSE out.stdout = <<>>

C27_Witness ==
    /\ Last("release") /\ out.env.gomod.found
    /\ out.before.changesetsDir.exists
    /\ out.err = ErrNothingToRelease /\ out.exit = 1 /\ out.stdout = <<>>

\* the program ran without a command: usage on standard error, status 1, and
\* the project as it was
NoCommandRan ==
    /\ out # NoOutput /\ Len(out.args) < 2
    /\ out.exit = 1 /\ out.stdout = <<>> /\ out.said = <<Usage>> /\ ProjectUnchanged

\* the file name of the slug the random source points at in an attempt
NameDrawn(rnd, a) ==
    IF (IF a < rnd.switchAt THEN rnd.first ELSE rnd.then).adj1 = 0
    THEN AngryName ELSE BraveName

\* the attempts of the last add at which the name drawn was free
FreeAttempts ==
    {a \in 0..(MaxAttempts - 1) :
        NameDrawn(out.env.rnd, a) \notin NamesIn(out.before.changesDir)}

\* the last run was an add that got as far as generating a slug, in a project
\* that is initialised, with a random source and a directory that work
Slugged ==
    /\ Last("add") /\ ValidAdd(out.stdin)
    /\ out.env.gomod = GoModOk /\ out.env.rnd.reads = -1 /\ ~out.env.writeFails
    /\ out.before.changesDir.exists

\* C28: the slug add writes to is the one drawn at the first attempt whose file
\* name is not in the changes directory: a name that exists is never returned,
\* a collision is followed by another attempt, and when all 100 attempts
\* collide add returns the error of the generator and writes nothing; no entry
\* that was in the directory is changed or replaced by add.
C28_SlugIsFree ==
    /\ Last("add") => EntriesKept
    /\ Slugged =>
          IF FreeAttempts = {}
          THEN out.err = ErrSlugExhausted /\ changesDir = out.before.changesDir
          ELSE /\ out.err = "" /\ CreatedOne
               /\ \E a \in FreeAttempts :
                     /\ \A b \in FreeAttempts : a <= b
                     /\ NewEntriesOf(changesDir, out.before.changesDir)[1].name
                            = NameDrawn(out.env.rnd, a)

C28_Witness ==
    /\ Slugged /\ out.env.rnd.switchAt = MaxAttempts - 1
    /\ AngryName \in NamesIn(out.before.changesDir)
    /\ out.err = ""
    /\ NewEntriesOf(changesDir, out.before.changesDir)[1].name = BraveName
    /\ {AngryName, BraveName} \subseteq NamesIn(changesDir)

\* all 100 attempts collided
SlugsExhausted ==
    /\ Slugged /\ FreeAttempts = {} /\ out.err = ErrSlugExhausted

(***************************************************************************)
(* The stored version over add, next and release (checked under SpecCli).  *)
(***************************************************************************)
\* the stored version as the version parser reads it
StoredVersion(file) == semverNewVersion(TrimPrefix(file.version, <<"v">>))

\* config.json holds a version the parser accepts
StoredValid(file) == file.state = "ok" /\ StoredVersion(file).ok

\* precedence of semantic versions: major, minor and patch compared as numbers
\* in that order; with equal numbers a pre-release precedes the release.  Two
\* different pre-releases of the same numbers are never compared here: release
\* stores no pre-release.
Precedes(a, b) ==
    \/ a.major < b.major
    \/ a.major = b.major /\ a.minor < b.minor
    \/ a.major = b.major /\ a.minor = b.minor /\ a.patch < b.patch
    \/ /\ a.major = b.major /\ a.minor = b.minor /\ a.patch = b.patch
       /\ a.pre # <<>> /\ b.pre = <<>>

\* this step runs add, next or release on a project whose stored version is valid
LifecycleStep == out'.cmd \in {"add", "next", "release"} /\ StoredValid(cfgFile)

\* this step is a release that returns no error
SuccessfulRelease == out'.cmd = "release" /\ out'.err = ""

\* this step stores a valid version that the one stored before precedes
VersionIncreased ==
    StoredValid(cfgFile') /\ Precedes(StoredVersion(cfgFile), StoredVersion(cfgFile'))

\* C29: at add, next and release on a valid stored version, the stored version
\* strictly increases if the command is a release that returns no error, and
\* config.json is unchanged at every other command (so it never decreases).
C29_VersionMonotonic ==
    [][LifecycleStep
          => IF SuccessfulRelease THEN VersionIncreased ELSE cfgFile' = cfgFile]_vars

\* at add, next and release on a valid stored version, config.json is unchanged
\* or the stored version has increased; it has increased after every release
\* that returns no error, and add and next leave config.json unchanged
VersionNeverDecreases ==
    [][LifecycleStep
          => /\ cfgFile' = cfgFile \/ VersionIncreased
             /\ SuccessfulRelease => VersionIncreased
             /\ out'.cmd # "release" => cfgFile' = cfgFile]_vars

\* a release has returned the error of a failing removal after storing a
\* version the one stored before precedes
VersionRaisedByFailedRelease ==
    /\ Last("release") /\ out.err = ErrRemove
    /\ StoredValid(out.before.cfgFile) /\ StoredValid(cfgFile)
    /\ Precedes(StoredVersion(out.before.cfgFile), StoredVersion(cfgFile))

====
